---- MODULE Spec2Model ----
(***************************************************************************)
(* Model of the content-pipeline submodule routes (routes/submodules.js)   *)
(* with the datastore tables they read and write, and of the shared        *)
(* browser utility (fetch-with-fallback engine).                           *)
(***************************************************************************)
EXTENDS Integers, Sequences, FiniteSets, TLC

\* ------------------------------------------------------------------ bounds
MaxDiscoveryRuns == 1   \* discovery rows the submodule_runs table may hold
MaxValidationRuns == 1  \* validation rows the submodule_runs table may hold
MaxBatch == 2        \* longest approvals array of one batch-approval request
MaxPipelineRuns == 2 \* rows the pipeline_runs table may hold
MaxCallers == 2      \* fetchWithFallback calls in flight at the same time
MaxLaunches == 3     \* chromium.launch calls of one process
TimeoutTicks == 2    \* a timeout (simpleTimeout, the socket timeout) in clock ticks
MaxRedirects == 2    \* redirects fetch() follows before it fails
MaxEntities == 3     \* entities of one discovery execute
MaxConcurrency == 2  \* largest config.concurrency
MaxPath == 3         \* longest URL path, in segments
MaxQuery == 2        \* most query parameters of one URL
MaxUrls == 3         \* longest list of URL records given to a validator
MaxChildren == 6     \* most child sitemaps of a sitemap index
EntriesPerChild == 2 \* <url> entries of every child sitemap
MaxSeeds == 3        \* seed URLs of the entity, homepage included
MaxLinks == 2        \* most links on one seed page
BATCH_SIZE == 2      \* rows of one page of the URL-loading loop (1000 in the route)
MaxPages == 2        \* pages that fill MAX_URLS (50 in the route)
MaxRows == 5         \* pending discovered_urls rows of the run
MaxKids == 2         \* most child sitemaps of one entity's sitemap index
MaxPreview == 2      \* most entities of one preview request

\* ------------------------------------------------------- values and domains
NULL == "null"
Urls == {"u1", "u2"}
\* the URLs the site of each entity (by snapshot id) serves
SiteUrls == [a |-> {"u1"}, b |-> {"u2"}, c |-> {"u1"}]
ExceptionMessages == {"", "boom"}      \* e.message of what execute throws

\* CHECK (status IN (...)) on submodule_result_approvals.status
ApprovalStatuses == {"pending", "approved", "rejected"}

\* CONSTRAINT valid_submodule_status on submodule_runs.status
valid_submodule_status ==
    {"pending", "running", "completed", "failed", "approved", "rejected"}

VARIABLES
    pipeline_runs,     \* table pipeline_runs: sequence of rows, id = index
    run_entities,      \* table run_entities: sequence of rows, id = index
    submodule_runs,    \* table submodule_runs: sequence of rows, id = index
    approvals,         \* table submodule_result_approvals: rows, id = index
    discovered_urls,   \* table discovered_urls: sequence of rows, id = index
    events,            \* messages the last request published on pipeline-events
    response,          \* what the last request answered
    browserInstance,   \* module variable browserInstance: a launch id, or NoBrowser
    browserLaunchPromise, \* module variable browserLaunchPromise: a launch id, or NoBrowser
    launches,          \* every chromium.launch so far: the state of its promise / browser
    calls,             \* the fetchWithFallback calls in flight, by caller
    process,           \* the node process: running, closing, exiting, exited
    net,               \* one network call in flight, with the server it talks to
    pool,              \* one discovery execute: its batches and entities in flight
    arg,               \* input of the last pure function applied
    ret                \* what the function returned for arg

dbvars == <<pipeline_runs, run_entities, submodule_runs, approvals,
            discovered_urls>>
routevars == <<pipeline_runs, run_entities, submodule_runs, approvals,
              discovered_urls, events, response>>
fetchvars == <<browserInstance, browserLaunchPromise, launches, calls, process>>
auxvars == <<net, pool, arg, ret>>
vars == <<pipeline_runs, run_entities, submodule_runs, approvals,
          discovered_urls, events, response, browserInstance,
          browserLaunchPromise, launches, calls, process, net, pool, arg, ret>>

\* ----------------------------------------------------------------- helpers
Range(s) == {s[i] : i \in DOMAIN s}

RECURSIVE FilterUrl(_, _)
\* Array.prototype.filter(r => urls.includes(r.url)): keeps order
FilterUrl(s, urls) ==
    IF s = <<>> THEN <<>>
    ELSE IF Head(s).url \in urls THEN <<Head(s)>> \o FilterUrl(Tail(s), urls)
    ELSE FilterUrl(Tail(s), urls)

\* absent id (undefined / null in a request body or a column)
NoId == 0

\* ------------------------------------------------------ createApprovalRecords
\* a flattening that lists the invalid results first
flatResults_invalidFirst(results) ==
    IF results.shape = "partition" THEN results.invalid \o results.valid
    ELSE results.items

\* flattening of a stored results value: {valid, invalid} or a flat array
flatResults(results) ==
    IF results.shape = "partition" THEN results.valid \o results.invalid
    ELSE results.items

\* rows inserted for one submodule run; none when the insert returns an error
\* (relation does not exist, or any other error: both are swallowed)
createApprovalRecords(submoduleRunId, results, insertError) ==
    LET flat == flatResults(results) IN
    IF flat = <<>> \/ insertError THEN <<>>
    ELSE [index \in 1..Len(flat) |->
            [submodule_run_id |-> submoduleRunId,
             result_index |-> index - 1,
             result_url |-> flat[index].url,
             status |-> "pending"]]

\* ------------------------------------------------------------- execute route
\* entity lists a request body may carry in "entities" (<<>>: field absent)
DirectEntityLists == {<<>>, <<"a">>}
\* id lists a request body may carry in "run_entity_ids" (<<>>: field absent)
RunEntityIdLists == {<<>>, <<1>>, <<1, 2>>, <<3>>}

ExecuteRequests ==
    [run_id : 0..MaxPipelineRuns, run_entity_ids : RunEntityIdLists,
     entities : DirectEntityLists, project_id : {NULL, "p1"}]

\* which of the three input modes a request body selects (0: none, 400)
ResolveMode(req) ==
    IF req.project_id # NULL /\ req.run_id = NoId /\ req.entities # <<>> THEN 1
    ELSE IF req.entities # <<>> THEN 2
    ELSE IF req.run_id # NoId /\ req.run_entity_ids # <<>> THEN 3
    ELSE 0

\* rows of run_entities whose id is in ids, in table order, as entities
LoadEntities(ids) ==
    LET idx == {i \in DOMAIN run_entities : i \in Range(ids)}
        RECURSIVE Build(_)
        Build(i) == IF i > Len(run_entities) THEN <<>>
                    ELSE IF i \in idx
                         THEN <<[id |-> run_entities[i].snapshot_id,
                                 run_entity_id |-> i]>> \o Build(i + 1)
                         ELSE Build(i + 1)
    IN Build(1)

\* the order in which a source page or sitemap lists the URLs
UrlOrder == <<"u1", "u2">>

RECURSIVE Found(_, _, _)
\* the candidates of one entity: the URLs of found, in source order
Found(entity, found, i) ==
    IF i > Len(UrlOrder) THEN <<>>
    ELSE IF UrlOrder[i] \in found
         THEN <<[url |-> UrlOrder[i], entity_id |-> entity.id]>> \o Found(entity, found, i + 1)
         ELSE Found(entity, found, i + 1)

RECURSIVE Flatten(_, _, _)
\* results.push(...result.urls) for each entity in input order
Flatten(entities, finds, i) ==
    IF i > Len(entities) THEN <<>>
    ELSE Found(entities[i], finds[i], 1) \o Flatten(entities, finds, i + 1)

\* what a discovery submodule may return for a list of entities: for each
\* entity in input order, the URLs it found on that entity's site
DiscoveryOutputs(entities) ==
    {Flatten(entities, finds, 1) :
        finds \in {f \in [1..Len(entities) -> SUBSET Urls] :
                     \A i \in 1..Len(entities) : f[i] \subseteq SiteUrls[entities[i].id]}}

\* how one call of submodule.execute ends: it returns, or throws e
Outcomes ==
    {[threw |-> FALSE, msg |-> NULL]} \cup
    {[threw |-> TRUE, msg |-> m] : m \in ExceptionMessages}

Reply(op, code) ==
    [op |-> op, code |-> code, status |-> NULL,
     preview_mode |-> FALSE, already_approved |-> FALSE]

\* status = error ? 'failed' : 'completed', error being e.message or null
ExecStatus(threw, msg) ==
    IF threw /\ msg # "" THEN "failed" ELSE "completed"

\* number of submodule_runs rows of one submodule type
CountRuns(type) ==
    Cardinality({i \in DOMAIN submodule_runs : submodule_runs[i].submodule_type = type})

\* the row a route inserts into submodule_runs (rejected_count, a column no
\* route reads, is left out)
RunRecord(run_id, type, name, run_entity_ids, status, results, error) ==
    [run_id |-> run_id, submodule_type |-> type, submodule_name |-> name,
     run_entity_ids |-> run_entity_ids, status |-> status, results |-> results,
     error |-> error, approved_count |-> NoId]

\* POST /:type/:name/execute for a discovery submodule
Execute(name, req, outcome, insertError) ==
    LET mode == ResolveMode(req)
        threw == outcome.threw
        msg == outcome.msg
        newRunId == Len(pipeline_runs) + 1
        newEntityRows == [i \in 1..Len(req.entities) |->
                            [run_id |-> newRunId, snapshot_id |-> req.entities[i]]]
        runs1 == IF mode = 1 THEN Append(pipeline_runs, [project_id |-> req.project_id])
                 ELSE pipeline_runs
        ents1 == IF mode = 1 THEN run_entities \o newEntityRows ELSE run_entities
        run_id == IF mode = 1 THEN newRunId ELSE req.run_id
        run_entity_ids ==
            IF mode = 1 THEN [i \in 1..Len(req.entities) |-> Len(run_entities) + i]
            ELSE req.run_entity_ids
        entities ==
            IF mode = 1
            THEN [i \in 1..Len(req.entities) |->
                    [id |-> req.entities[i], run_entity_id |-> Len(run_entities) + i]]
            ELSE IF mode = 2
            THEN [i \in 1..Len(req.entities) |->
                    [id |-> req.entities[i], run_entity_id |-> NoId]]
            ELSE LoadEntities(req.run_entity_ids)
        isPreviewMode == mode = 2
        submoduleRunId == Len(submodule_runs) + 1
        status == ExecStatus(threw, msg)
        error == IF threw THEN msg ELSE NULL
    IN
    /\ mode = 1 => Len(pipeline_runs) < MaxPipelineRuns
    /\ IF mode = 0
       THEN /\ response' = Reply("execute", 400)
            /\ events' = <<>>
            /\ UNCHANGED dbvars
       ELSE IF mode = 3 /\ entities = <<>>
       THEN /\ response' = Reply("execute", 404)
            /\ events' = <<>>
            /\ UNCHANGED dbvars
       ELSE
         \E out \in IF threw THEN {<<>>} ELSE DiscoveryOutputs(entities) :
           LET results == [shape |-> "array", items |-> out]
               reply == [Reply("execute", 200) EXCEPT
                            !.status = status, !.preview_mode = isPreviewMode]
               start == [type |-> "submodule_start", id |-> NoId]
               complete == [type |-> "submodule_complete", id |-> submoduleRunId]
           IN
           /\ pipeline_runs' = runs1
           /\ run_entities' = ents1
           /\ UNCHANGED discovered_urls
           /\ IF run_id = NoId
              THEN /\ response' = reply
                   /\ events' = <<>>
                   /\ UNCHANGED <<submodule_runs, approvals>>
              ELSE IF run_entity_ids = <<>> \/ run_id > Len(pipeline_runs)
              \* run_entity_ids NOT NULL, run_id REFERENCES pipeline_runs(id)
              THEN /\ response' = Reply("execute", 500)
                   /\ events' = <<start>>
                   /\ UNCHANGED <<submodule_runs, approvals>>
              ELSE /\ CountRuns("discovery") < MaxDiscoveryRuns
                   /\ submodule_runs' = Append(submodule_runs,
                        RunRecord(run_id, "discovery", name, run_entity_ids,
                                  status, results, error))
                   /\ approvals' = approvals \o
                        createApprovalRecords(submoduleRunId, results, insertError)
                   /\ events' = <<start, complete>>
                   /\ response' = reply

\* ------------------------------------------------------------- approve route
\* entity_snapshot.id -> run_entities.id for the rows whose id is in ids;
\* a later row replaces an earlier one with the same snapshot id
entityToRunEntityMap(ids) ==
    LET rows == {i \in DOMAIN run_entities : i \in Range(ids)}
        RECURSIVE Last(_, _)
        Last(e, i) == IF i = 0 THEN NoId
                      ELSE IF i \in rows /\ run_entities[i].snapshot_id = e THEN i
                      ELSE Last(e, i - 1)
    IN [e \in {run_entities[i].snapshot_id : i \in rows} |-> Last(e, Len(run_entities))]

\* the run entity a result is stored under
targetRunEntityId(urlItem, subRun) ==
    LET map == entityToRunEntityMap(subRun.run_entity_ids) IN
    IF urlItem.entity_id \in DOMAIN map THEN map[urlItem.entity_id]
    ELSE subRun.run_entity_ids[1]

RECURSIVE upsertIgnore_overwrite(_, _)
\* an upsert that updates the conflicting row (ignoreDuplicates: false)
upsertIgnore_overwrite(table, records) ==
    IF records = <<>> THEN table
    ELSE LET r == Head(records)
             hit == {i \in DOMAIN table :
                       table[i].run_entity_id = r.run_entity_id /\ table[i].url = r.url}
         IN
         IF hit # {}
         THEN upsertIgnore_overwrite([i \in DOMAIN table |-> IF i \in hit THEN r ELSE table[i]],
                                     Tail(records))
         ELSE upsertIgnore_overwrite(Append(table, r), Tail(records))

RECURSIVE upsertIgnore(_, _)
\* upsert(records, {onConflict: 'run_entity_id,url', ignoreDuplicates: true})
upsertIgnore(table, records) ==
    IF records = <<>> THEN table
    ELSE LET r == Head(records) IN
         IF \E i \in DOMAIN table :
               table[i].run_entity_id = r.run_entity_id /\ table[i].url = r.url
         THEN upsertIgnore(table, Tail(records))
         ELSE upsertIgnore(Append(table, r), Tail(records))

\* a guard that never fires: every approve request is processed again
alreadyApproved_never(subRun) == FALSE

\* Idempotency: return success if already approved
alreadyApproved(subRun) == subRun.status = "approved"

\* POST /runs/:runId/:submoduleRunId/approve
Approve(runId, submoduleRunId, selected_urls) ==
    /\ events' = <<>>
    /\ IF ~(submoduleRunId \in DOMAIN submodule_runs
            /\ submodule_runs[submoduleRunId].run_id = runId)
       THEN /\ response' = Reply("approve", 404)
            /\ UNCHANGED dbvars
       ELSE
       LET subRun == submodule_runs[submoduleRunId] IN
       IF alreadyApproved(subRun)
       THEN /\ response' = [Reply("approve", 200) EXCEPT !.already_approved = TRUE]
            /\ UNCHANGED dbvars
       ELSE IF subRun.results.shape = "partition"
       THEN IF selected_urls # {}
            \* urlsToSave.filter is not a function
            THEN /\ response' = Reply("approve", 500)
                 /\ UNCHANGED dbvars
            ELSE /\ submodule_runs' = [submodule_runs EXCEPT
                                         ![submoduleRunId].status = "approved"]
                 /\ response' = Reply("approve", 200)
                 /\ UNCHANGED <<pipeline_runs, run_entities, approvals, discovered_urls>>
       ELSE
       LET urlsToSave == IF selected_urls # {}
                         THEN FilterUrl(subRun.results.items, selected_urls)
                         ELSE subRun.results.items
           urlRecords == [i \in 1..Len(urlsToSave) |->
                            [run_entity_id |-> targetRunEntityId(urlsToSave[i], subRun),
                             url |-> urlsToSave[i].url,
                             discovery_method |-> subRun.submodule_name,
                             status |-> "pending"]]
       IN
       /\ discovered_urls' = upsertIgnore(discovered_urls, urlRecords)
       /\ submodule_runs' = [submodule_runs EXCEPT
                               ![submoduleRunId].status = "approved",
                               ![submoduleRunId].approved_count = Len(urlsToSave)]
       /\ response' = Reply("approve", 200)
       /\ UNCHANGED <<pipeline_runs, run_entities, approvals>>

\* DELETE /runs/:runId/:submoduleRunId
Reject(runId, submoduleRunId) ==
    /\ submodule_runs' =
         [i \in DOMAIN submodule_runs |->
            IF i = submoduleRunId
            THEN [submodule_runs[i] EXCEPT !.status = "rejected"]
            ELSE submodule_runs[i]]
    /\ response' = Reply("reject", 200)
    /\ events' = <<>>
    /\ UNCHANGED <<pipeline_runs, run_entities, approvals, discovered_urls>>

\* ------------------------------------------------- per-result approval routes
\* summary[app.status]++ over the approval rows of one submodule run
Summary(rows, submoduleRunId, st) ==
    Cardinality({i \in DOMAIN rows :
                   rows[i].submodule_run_id = submoduleRunId /\ rows[i].status = st})

DecisionStatus(action) == IF action = "approve" THEN "approved" ELSE "rejected"

\* update(...).eq('id', id).eq('submodule_run_id', submoduleRunId)
updateApproval(rows, id, submoduleRunId, st) ==
    [i \in DOMAIN rows |->
        IF i = id /\ rows[i].submodule_run_id = submoduleRunId
        THEN [rows[i] EXCEPT !.status = st]
        ELSE rows[i]]

\* PATCH /runs/:runId/:submoduleRunId/results/:approvalId
PatchResult(runId, submoduleRunId, approvalId, action, tableMissing) ==
    /\ events' = <<>>
    /\ UNCHANGED <<pipeline_runs, run_entities, submodule_runs, discovered_urls>>
    /\ IF action \notin {"approve", "reject"}
       THEN /\ response' = Reply("patch", 400)
            /\ UNCHANGED approvals
       ELSE IF tableMissing
       THEN /\ response' = Reply("patch", 503)
            /\ UNCHANGED approvals
       ELSE IF ~(approvalId \in DOMAIN approvals
                 /\ approvals[approvalId].submodule_run_id = submoduleRunId)
       THEN /\ response' = Reply("patch", 404)
            /\ UNCHANGED approvals
       ELSE /\ approvals' = updateApproval(approvals, approvalId, submoduleRunId,
                                           DecisionStatus(action))
            /\ response' = [Reply("patch", 200) EXCEPT !.status = DecisionStatus(action)]

RECURSIVE applyBatch(_, _, _)
\* the loop over the approvals array: one update per entry, in order
applyBatch(rows, batch, submoduleRunId) ==
    IF batch = <<>> THEN rows
    ELSE applyBatch(updateApproval(rows, Head(batch).result_id, submoduleRunId,
                                   DecisionStatus(Head(batch).action)),
                    Tail(batch), submoduleRunId)

\* Determine new submodule status
newStatus(pending) == IF pending = 0 THEN "approved" ELSE "partial"

\* POST /runs/:runId/:submoduleRunId/batch-approval
BatchApproval(runId, submoduleRunId, batch) ==
    /\ UNCHANGED <<pipeline_runs, run_entities, discovered_urls>>
    /\ IF batch = <<>> \/ \E i \in DOMAIN batch :
                             \/ batch[i].result_id = NoId
                             \/ batch[i].action \notin {"approve", "reject"}
       THEN /\ response' = Reply("batch", 400)
            /\ events' = <<>>
            /\ UNCHANGED <<submodule_runs, approvals>>
       ELSE IF ~(submoduleRunId \in DOMAIN submodule_runs
                 /\ submodule_runs[submoduleRunId].run_id = runId)
       THEN /\ response' = Reply("batch", 404)
            /\ events' = <<>>
            /\ UNCHANGED <<submodule_runs, approvals>>
       ELSE
       LET rows == applyBatch(approvals, batch, submoduleRunId)
           pending == Summary(rows, submoduleRunId, "pending")
           st == newStatus(pending)
       IN
       /\ approvals' = rows
       /\ IF st \notin valid_submodule_status
          \* the update violates CHECK valid_submodule_status: subRunErr is thrown
          THEN /\ response' = Reply("batch", 500)
               /\ events' = <<>>
               /\ UNCHANGED submodule_runs
          ELSE /\ submodule_runs' = [submodule_runs EXCEPT
                    ![submoduleRunId].status = st,
                    ![submoduleRunId].approved_count = Summary(rows, submoduleRunId, "approved")]
               /\ events' = <<[type |-> "submodule_approval", id |-> submoduleRunId]>>
               /\ response' = [Reply("batch", 200) EXCEPT !.status = st]

\* ---------------------------------------------------------- validation routes
\* ids of the discovered_urls rows a validation run loads, in table order
PendingUrlIds(entityIds) ==
    LET RECURSIVE Build(_)
        Build(i) == IF i > Len(discovered_urls) THEN <<>>
                    ELSE IF discovered_urls[i].run_entity_id \in Range(entityIds)
                            /\ discovered_urls[i].status = "pending"
                         THEN <<i>> \o Build(i + 1)
                         ELSE Build(i + 1)
    IN Build(1)

\* ids of the run_entities rows of one pipeline run, in table order
RunEntityIds(run_id) ==
    LET RECURSIVE Build(_)
        Build(i) == IF i > Len(run_entities) THEN <<>>
                    ELSE IF run_entities[i].run_id = run_id THEN <<i>> \o Build(i + 1)
                    ELSE Build(i + 1)
    IN Build(1)

RECURSIVE Pick(_, _, _)
\* the loaded URL records whose id is (keep = TRUE) or is not in a set
Pick(ids, set, keep) ==
    IF ids = <<>> THEN <<>>
    ELSE IF (Head(ids) \in set) = keep
         THEN <<[id |-> Head(ids), url |-> discovered_urls[Head(ids)].url,
                 run_entity_id |-> discovered_urls[Head(ids)].run_entity_id]>>
              \o Pick(Tail(ids), set, keep)
         ELSE Pick(Tail(ids), set, keep)

\* POST /validation/:name/execute
ValidationExecute(run_id, run_entity_ids, outcome, invalidIds, insertError) ==
    LET entityIds == IF run_entity_ids = <<>> THEN RunEntityIds(run_id)
                     ELSE run_entity_ids
        ids == PendingUrlIds(entityIds)
        result == IF outcome.threw
                  THEN [shape |-> "partition", valid |-> <<>>, invalid |-> <<>>]
                  ELSE [shape |-> "partition", valid |-> Pick(ids, invalidIds, FALSE),
                        invalid |-> Pick(ids, invalidIds, TRUE)]
        status == ExecStatus(outcome.threw, outcome.msg)
        submoduleRunId == Len(submodule_runs) + 1
    IN
    /\ invalidIds \subseteq Range(ids)
    /\ UNCHANGED <<pipeline_runs, run_entities, discovered_urls>>
    /\ IF run_id = NoId \/ entityIds = <<>>
       THEN /\ response' = Reply("validate", 400)
            /\ events' = <<>>
            /\ UNCHANGED <<submodule_runs, approvals>>
       ELSE IF ids = <<>>
       THEN /\ response' = [Reply("validate", 200) EXCEPT !.status = "completed"]
            /\ events' = <<>>
            /\ UNCHANGED <<submodule_runs, approvals>>
       ELSE IF run_id > Len(pipeline_runs)
       \* run_id REFERENCES pipeline_runs(id): insertErr is thrown
       THEN /\ response' = Reply("validate", 500)
            /\ events' = <<[type |-> "submodule_start", id |-> NoId]>>
            /\ UNCHANGED <<submodule_runs, approvals>>
       ELSE /\ CountRuns("validation") < MaxValidationRuns
            /\ submodule_runs' = Append(submodule_runs,
                 RunRecord(run_id, "validation", "path-filter", entityIds, status,
                           result, IF outcome.threw THEN outcome.msg ELSE NULL))
            /\ approvals' = approvals \o
                 createApprovalRecords(submoduleRunId, result, insertError)
            /\ events' = <<[type |-> "submodule_start", id |-> NoId],
                           [type |-> "submodule_complete", id |-> submoduleRunId]>>
            /\ response' = [Reply("validate", 200) EXCEPT !.status = status]

\* POST /validation/runs/:runId/:submoduleRunId/apply
Apply(runId, submoduleRunId) ==
    /\ events' = <<>>
    /\ UNCHANGED <<pipeline_runs, run_entities, approvals>>
    /\ IF ~(submoduleRunId \in DOMAIN submodule_runs
            /\ submodule_runs[submoduleRunId].run_id = runId)
       THEN /\ response' = Reply("apply", 404)
            /\ UNCHANGED <<submodule_runs, discovered_urls>>
       ELSE IF submodule_runs[submoduleRunId].submodule_type # "validation"
       THEN /\ response' = Reply("apply", 400)
            /\ UNCHANGED <<submodule_runs, discovered_urls>>
       ELSE
       LET results == submodule_runs[submoduleRunId].results
           invalidIds == {results.invalid[i].id : i \in DOMAIN results.invalid}
       IN
       /\ discovered_urls' = [i \in DOMAIN discovered_urls |->
                                IF i \in invalidIds
                                THEN [discovered_urls[i] EXCEPT !.status = "filtered"]
                                ELSE discovered_urls[i]]
       /\ submodule_runs' = [submodule_runs EXCEPT
                               ![submoduleRunId].status = "approved",
                               ![submoduleRunId].approved_count = Len(results.valid)]
       /\ response' = Reply("apply", 200)

\* ------------------------------------------------------- shared browser utility
\* let browserInstance = null; let browserLaunchPromise = null;
NoBrowser == 0

Callers == 1..MaxCallers

\* what the direct fetch of a URL gives: an exception (network error, abort
\* after simpleTimeout) or a response with a status and a body
DirectResponses ==
    [threw : {TRUE}, status : {0}, body : {"none"}]
      \cup [threw : {FALSE}, status : {200, 403}, body : {"html", "captcha"}]

\* bot-protection detection on the direct response
isBlocked(r) ==
    \/ r.status \in {403, 429, 503}
    \/ r.body \in {"captcha", "cloudflare", "please enable javascript",
                   "browser check", "ddos protection"}

\* a caller that is not inside fetchWithFallback
IdleCall ==
    [pc |-> "idle", blocked |-> FALSE, inTry |-> FALSE, attempts |-> 0,
     promise |-> NoBrowser, browser |-> NoBrowser, how |-> NULL,
     contexts |-> 0, result |-> NULL]

\* an exception leaves fetchWithBrowser: inside the try of fetchWithFallback
\* the catch clause calls fetchWithBrowser again, in the catch clause the
\* exception leaves fetchWithFallback
browserThrew(call) ==
    IF call.inTry
    THEN [call EXCEPT !.pc = "getBrowser", !.inTry = FALSE,
                      !.attempts = call.attempts + 1,
                      !.promise = NoBrowser, !.browser = NoBrowser]
    ELSE [call EXCEPT !.pc = "done", !.result = "threw"]

\* fetchWithFallback up to its first call of fetchWithBrowser
fetchWithFallback(c, direct) ==
    /\ process # "exited"
    /\ calls[c].pc = "idle"
    /\ calls' = [calls EXCEPT ![c] =
          IF direct.threw
          THEN [IdleCall EXCEPT !.pc = "getBrowser", !.attempts = 1]
          ELSE IF isBlocked(direct)
          THEN [IdleCall EXCEPT !.pc = "getBrowser", !.attempts = 1,
                                !.blocked = TRUE, !.inTry = TRUE]
          ELSE [IdleCall EXCEPT !.pc = "done", !.result = "direct"]]
    /\ UNCHANGED <<browserInstance, browserLaunchPromise, launches, process>>
    /\ UNCHANGED <<routevars, auxvars>>

\* a marker that is never seen: every caller without an instance launches
launchInFlight_never == FALSE

\* if (browserLaunchPromise)
launchInFlight == browserLaunchPromise # NoBrowser

\* getBrowser up to its return or its await
getBrowser(c) ==
    /\ process # "exited"
    /\ calls[c].pc = "getBrowser"
    /\ IF browserInstance # NoBrowser
       THEN /\ calls' = [calls EXCEPT ![c].pc = "newContext",
                                      ![c].browser = browserInstance,
                                      ![c].how = "instance"]
            /\ UNCHANGED <<browserLaunchPromise, launches>>
       ELSE IF launchInFlight
       THEN /\ calls' = [calls EXCEPT ![c] =
                  IF launches[browserLaunchPromise] = "pending"
                  THEN [calls[c] EXCEPT !.pc = "awaitLaunch",
                                        !.promise = browserLaunchPromise,
                                        !.how = "awaited"]
                  ELSE browserThrew(calls[c])]
            /\ UNCHANGED <<browserLaunchPromise, launches>>
       ELSE /\ Len(launches) < MaxLaunches
            /\ launches' = Append(launches, "pending")
            /\ browserLaunchPromise' = Len(launches) + 1
            /\ calls' = [calls EXCEPT ![c].pc = "launching",
                                      ![c].promise = Len(launches) + 1,
                                      ![c].how = "launched"]
    /\ UNCHANGED <<browserInstance, process>>
    /\ UNCHANGED <<routevars, auxvars>>

\* the promise of chromium.launch settles and the callers awaiting it resume:
\* the launcher stores the instance and clears the marker, or throws and
\* leaves the marker set
launchSettles(p, ok) ==
    /\ process # "exited"
    /\ p \in DOMAIN launches
    /\ launches[p] = "pending"
    /\ launches' = [launches EXCEPT ![p] = IF ok THEN "open" ELSE "rejected"]
    /\ browserInstance' = IF ok THEN p ELSE browserInstance
    /\ browserLaunchPromise' = IF ok THEN NoBrowser ELSE browserLaunchPromise
    /\ calls' = [c \in Callers |->
          IF calls[c].pc \in {"launching", "awaitLaunch"} /\ calls[c].promise = p
          THEN IF ok THEN [calls[c] EXCEPT !.pc = "newContext", !.browser = p]
               ELSE browserThrew(calls[c])
          ELSE calls[c]]
    /\ UNCHANGED process
    /\ UNCHANGED <<routevars, auxvars>>

\* browser.newContext(...)
newContext(c, ok) ==
    /\ process # "exited"
    /\ calls[c].pc = "newContext"
    /\ ok => launches[calls[c].browser] = "open"
    /\ calls' = [calls EXCEPT ![c] =
          IF ok THEN [calls[c] EXCEPT !.pc = "newPage",
                                      !.contexts = calls[c].contexts + 1]
          ELSE browserThrew(calls[c])]
    /\ UNCHANGED <<browserInstance, browserLaunchPromise, launches, process>>
    /\ UNCHANGED <<routevars, auxvars>>

\* context.newPage(), before the try block
newPage(c, ok) ==
    /\ process # "exited"
    /\ calls[c].pc = "newPage"
    /\ ok => launches[calls[c].browser] = "open"
    /\ calls' = [calls EXCEPT ![c] =
          IF ok THEN [calls[c] EXCEPT !.pc = "goto"]
          ELSE browserThrew(calls[c])]
    /\ UNCHANGED <<browserInstance, browserLaunchPromise, launches, process>>
    /\ UNCHANGED <<routevars, auxvars>>

\* the try block of fetchWithBrowser with its finally: context.close()
navigate(c, ok) ==
    /\ process # "exited"
    /\ calls[c].pc = "goto"
    /\ ok => launches[calls[c].browser] = "open"
    /\ calls' = [calls EXCEPT ![c] =
          IF ok THEN [calls[c] EXCEPT !.pc = "done",
                                      !.contexts = calls[c].contexts - 1,
                                      !.result = "browser"]
          ELSE browserThrew([calls[c] EXCEPT !.contexts = calls[c].contexts - 1])]
    /\ UNCHANGED <<browserInstance, browserLaunchPromise, launches, process>>
    /\ UNCHANGED <<routevars, auxvars>>

\* usedBrowser of the result a call returned
usedBrowser(call) == call.result = "browser"

\* the caller takes the outcome of its call and may call again
takeResult(c) ==
    /\ process # "exited"
    /\ calls[c].pc = "done"
    /\ calls' = [calls EXCEPT ![c] = IdleCall]
    /\ UNCHANGED <<browserInstance, browserLaunchPromise, launches, process>>
    /\ UNCHANGED <<routevars, auxvars>>

\* closeBrowser on SIGINT / SIGTERM / beforeExit, up to its await
closeBrowser ==
    /\ process = "running"
    /\ IF browserInstance # NoBrowser
       THEN /\ launches' = [launches EXCEPT ![browserInstance] = "closed"]
            /\ process' = "closing"
       ELSE /\ process' = "exiting"
            /\ UNCHANGED launches
    /\ UNCHANGED <<browserInstance, browserLaunchPromise, calls>>
    /\ UNCHANGED <<routevars, auxvars>>

\* browserInstance.close() has resolved: browserInstance = null
closeBrowserDone ==
    /\ process = "closing"
    /\ browserInstance' = NoBrowser
    /\ process' = "exiting"
    /\ UNCHANGED <<browserLaunchPromise, launches, calls>>
    /\ UNCHANGED <<routevars, auxvars>>

\* process.exit(0)
processExit ==
    /\ process = "exiting"
    /\ process' = "exited"
    /\ UNCHANGED <<browserInstance, browserLaunchPromise, launches, calls>>
    /\ UNCHANGED <<routevars, auxvars>>

\* ------------------------------------------------------------ specifications
RouteInit ==
    /\ pipeline_runs = <<[project_id |-> "p1"]>>
    /\ run_entities = <<[run_id |-> 1, snapshot_id |-> "a"],
                        [run_id |-> 1, snapshot_id |-> "b"]>>
    /\ submodule_runs = <<>>
    /\ approvals = <<>>
    /\ discovered_urls = <<>>
    /\ events = <<>>
    /\ response = Reply("none", 0)

FetchInit ==
    /\ browserInstance = NoBrowser
    /\ browserLaunchPromise = NoBrowser
    /\ launches = <<>>
    /\ calls = [c \in Callers |-> IdleCall]
    /\ process = "running"

\* no network call, no discovery execute, no function applied
NetIdle == net = NULL
PoolIdle == pool = NULL
PureIdle == arg = NULL /\ ret = NULL

Init == RouteInit /\ FetchInit /\ NetIdle /\ PoolIdle /\ PureIdle

\* requests of a client that works on the stored run (mode 3)
StoredRequests ==
    {r \in ExecuteRequests : r.run_id = 1 /\ r.entities = <<>> /\ r.project_id = NULL
                             /\ r.run_entity_ids = <<1, 2>>}

\* ids a request may name in its path: the stored ones and one that is not
RunIds == 1..MaxPipelineRuns
SubRunIds == 1..(MaxDiscoveryRuns + MaxValidationRuns)
ApprovalIds == 1..(Len(approvals) + 1)

\* ids of the stored submodule runs of one type
RunsOfType(type) ==
    {i \in DOMAIN submodule_runs : submodule_runs[i].submodule_type = type}

\* ids of the approval rows of one submodule run
RowsOf(id) == {i \in DOMAIN approvals : approvals[i].submodule_run_id = id}

\* approvals arrays of a batch request: up to MaxBatch entries on distinct
\* approval ids, in ascending id order
Batches(ids) ==
    LET Entries == [result_id : ids, action : {"approve", "reject"}] IN
    {b \in UNION {[1..k -> Entries] : k \in 1..MaxBatch} :
        \A i \in 1..(Len(b) - 1) : b[i].result_id < b[i + 1].result_id}

\* approvals arrays the route refuses: none, or an entry without id or action
BadBatches ==
    {<<>>, <<[result_id |-> NoId, action |-> "approve"]>>,
     <<[result_id |-> 1, action |-> "undo"]>>}

ExecuteStored ==
    /\ \E req \in StoredRequests, outcome \in Outcomes, insertError \in BOOLEAN :
           Execute("sitemap", req, outcome, insertError)
    /\ UNCHANGED <<fetchvars, auxvars>>

ExecuteAny ==
    /\ \E req \in ExecuteRequests, outcome \in Outcomes, insertError \in BOOLEAN :
           Execute("sitemap", req, outcome, insertError)
    /\ UNCHANGED <<fetchvars, auxvars>>

ApproveAny ==
    /\ \E runId \in RunIds, id \in SubRunIds, sel \in SUBSET Urls :
           Approve(runId, id, sel)
    /\ UNCHANGED <<fetchvars, auxvars>>

RejectAny ==
    /\ \E runId \in RunIds, id \in SubRunIds : Reject(runId, id)

    /\ UNCHANGED <<fetchvars, auxvars>>

PatchAny ==
    /\ \E runId \in RunIds, id \in SubRunIds, approvalId \in ApprovalIds,
          action \in {"approve", "reject", "undo"}, tableMissing \in BOOLEAN :
           PatchResult(runId, id, approvalId, action, tableMissing)
    /\ UNCHANGED <<fetchvars, auxvars>>

BatchAny ==
    /\ \E runId \in RunIds, id \in SubRunIds, batch \in Batches(ApprovalIds) \cup BadBatches :
           BatchApproval(runId, id, batch)
    /\ UNCHANGED <<fetchvars, auxvars>>

\* decisions an operator takes on the results of validation runs
PatchValidation ==
    /\ \E runId \in RunIds, id \in RunsOfType("validation") :
         \E approvalId \in RowsOf(id), action \in {"approve", "reject"} :
           PatchResult(runId, id, approvalId, action, FALSE)
    /\ UNCHANGED <<fetchvars, auxvars>>

BatchValidation ==
    /\ \E runId \in RunIds, id \in RunsOfType("validation") :
         \E batch \in Batches(RowsOf(id)) :
           BatchApproval(runId, id, batch)
    /\ UNCHANGED <<fetchvars, auxvars>>

ValidateAny ==
    /\ \E run_id \in RunIds, outcome \in Outcomes, insertError \in BOOLEAN,
          invalidIds \in SUBSET (DOMAIN discovered_urls) :
           ValidationExecute(run_id, <<>>, outcome, invalidIds, insertError)
    /\ UNCHANGED <<fetchvars, auxvars>>

ApplyAny ==
    /\ \E runId \in RunIds, id \in SubRunIds : Apply(runId, id)

    /\ UNCHANGED <<fetchvars, auxvars>>

\* the approval state machine on the results of a discovery run
Next ==
    \/ ExecuteStored
    \/ ApproveAny
    \/ RejectAny
    \/ PatchAny
    \/ BatchAny

Spec == Init /\ [][Next]_vars

\* discovery, promotion and validation of the promoted URLs
NextValidation ==
    \/ ExecuteStored
    \/ ApproveAny
    \/ RejectAny
    \/ ValidateAny
    \/ ApplyAny
    \/ PatchValidation
    \/ BatchValidation

SpecValidation == Init /\ [][NextValidation]_vars

\* the execute route under every shape of request body
NextExecute == ExecuteAny

SpecExecute == Init /\ [][NextExecute]_vars

\* the fetch engine: concurrent fetchWithFallback calls on the shared browser
NextFetch ==
    \/ \E c \in Callers, direct \in DirectResponses : fetchWithFallback(c, direct)
    \/ \E c \in Callers : getBrowser(c)
    \/ \E p \in 1..MaxLaunches, ok \in BOOLEAN : launchSettles(p, ok)
    \/ \E c \in Callers, ok \in BOOLEAN : newContext(c, ok)
    \/ \E c \in Callers, ok \in BOOLEAN : newPage(c, ok)
    \/ \E c \in Callers, ok \in BOOLEAN : navigate(c, ok)
    \/ \E c \in Callers : takeResult(c)
    \/ closeBrowser
    \/ closeBrowserDone
    \/ processExit

SpecFetch == Init /\ [][NextFetch]_vars

\* ------------------------------------------------------------------ claims
StatusOf(i) == submodule_runs[i].status
PendingOf(i) == Summary(approvals, i, "pending")

\* C1: a run's status is `approved` exactly when none of its approval rows
\* is pending; apart from the initial completed/failed value the status is
\* never set independently of the rows.
C1_StatusDerivedFromRows ==
    \A i \in DOMAIN submodule_runs :
        /\ StatusOf(i) = "approved" => PendingOf(i) = 0
        /\ StatusOf(i) \notin {"completed", "failed"} =>
              (StatusOf(i) = "approved" <=> PendingOf(i) = 0)

\* the run whose status a step turns into `approved`
BecomesApproved(i) ==
    /\ i \in DOMAIN submodule_runs
    /\ StatusOf(i) # "approved"
    /\ submodule_runs'[i].status = "approved"

\* C2: approve never inserts into discovered_urls a result whose approval
\* row is `rejected`.
C2_RejectedNeverPromoted ==
    [][\A i \in DOMAIN submodule_runs :
         BecomesApproved(i) =>
           \A k \in (DOMAIN discovered_urls') \ (DOMAIN discovered_urls) :
             ~\E r \in RowsOf(i) :
                 /\ approvals[r].status = "rejected"
                 /\ approvals[r].result_url = discovered_urls'[k].url]_vars

\* C3: approve on a run whose status is already `approved` answers
\* already_approved = true and writes nothing (no discovered_urls insert, no
\* submodule_runs update, approved_count unchanged).
C3_ReapproveIsNoOp ==
    [][\A runId \in RunIds, id \in DOMAIN submodule_runs, sel \in SUBSET Urls :
         (/\ Approve(runId, id, sel)
          /\ submodule_runs[id].run_id = runId
          /\ StatusOf(id) = "approved")
         => /\ response'.code = 200
            /\ response'.already_approved
            /\ UNCHANGED dbvars]_vars

C3_Witness ==
    /\ response.op = "approve"
    /\ response.already_approved
    /\ \E i \in DOMAIN submodule_runs :
          StatusOf(i) = "approved" /\ submodule_runs[i].approved_count = 1

\* the flattened results of a stored run: valid followed by invalid
C4_Flat(i) ==
    LET results == submodule_runs[i].results IN
    IF results.shape = "partition" THEN results.valid \o results.invalid
    ELSE results.items

\* the rows of run i are exactly one per result_index 0..n-1, each joined to
\* the result at that position
C4_RowsMatch(i) ==
    /\ {approvals[r].result_index : r \in RowsOf(i)} = 0..(Len(C4_Flat(i)) - 1)
    /\ Cardinality(RowsOf(i)) = Len(C4_Flat(i))
    /\ \A r \in RowsOf(i) :
          approvals[r].result_url = C4_Flat(i)[approvals[r].result_index + 1].url

\* no step reassigns a result_index, moves a row to another run or changes
\* the stored results
C4_Stable ==
    /\ \A i \in DOMAIN submodule_runs :
          /\ i \in DOMAIN submodule_runs'
          /\ submodule_runs'[i].results = submodule_runs[i].results
    /\ \A r \in DOMAIN approvals :
          /\ r \in DOMAIN approvals'
          /\ approvals'[r].result_index = approvals[r].result_index
          /\ approvals'[r].submodule_run_id = approvals[r].submodule_run_id
          /\ approvals'[r].result_url = approvals[r].result_url

\* C4 as stated: every persisted run has exactly one row per result.
C4_OneRowPerResult ==
    \A i \in DOMAIN submodule_runs : C4_RowsMatch(i)

\* C4 as amended: a persisted run has either no approval row at all (the
\* insert of the rows returned an error, which is swallowed) or exactly one
\* row per result_index 0..n-1 joined to the i-th flattened result; no later
\* operation reassigns a result_index or changes the stored results.
C4_RowsMatchOrNone ==
    /\ [](\A i \in DOMAIN submodule_runs : RowsOf(i) = {} \/ C4_RowsMatch(i))
    /\ [][C4_Stable]_vars

C4_Witness ==
    \E i \in DOMAIN submodule_runs :
        /\ submodule_runs[i].results.shape = "partition"
        /\ submodule_runs[i].results.valid # <<>>
        /\ submodule_runs[i].results.invalid # <<>>
        /\ StatusOf(i) = "approved"
        /\ RowsOf(i) # {}
        /\ \A r \in RowsOf(i) : approvals[r].status # "pending"

\* C5: a decided approval row is never moved to the other decision and never
\* returns to pending.
C5_DecidedIsFinal ==
    [][\A r \in DOMAIN approvals :
         approvals[r].status # "pending" =>
            approvals'[r].status = approvals[r].status]_vars

\* at most one discovered_urls row per (run_entity_id, url)
C6_Unique ==
    \A j, k \in DOMAIN discovered_urls :
        (/\ discovered_urls[j].run_entity_id = discovered_urls[k].run_entity_id
         /\ discovered_urls[j].url = discovered_urls[k].url) => j = k

\* an existing row is kept as it is; only apply may set its status to filtered
C6_RowsKept ==
    \A k \in DOMAIN discovered_urls :
        /\ k \in DOMAIN discovered_urls'
        /\ \/ discovered_urls'[k] = discovered_urls[k]
           \/ /\ response'.op = "apply"
              /\ discovered_urls'[k] = [discovered_urls[k] EXCEPT !.status = "filtered"]

\* C6: discovered_urls holds at most one row per (run_entity_id, url), and a
\* later approval never overwrites a row that already exists.
C6_InsertOrIgnore ==
    /\ []C6_Unique
    /\ [][C6_RowsKept]_vars

\* an approve has just promoted both results of the discovery run again, one
\* of them onto a row that apply had set to filtered
C6_Witness ==
    /\ response.op = "approve" /\ response.code = 200 /\ ~response.already_approved
    /\ \E i \in RunsOfType("discovery") :
          StatusOf(i) = "approved" /\ submodule_runs[i].approved_count = 2
    /\ \A i \in RunsOfType("validation") : StatusOf(i) = "rejected"
    /\ \E k \in DOMAIN discovered_urls : discovered_urls[k].status = "filtered"

\* C7: an execute answered with preview_mode = true persists nothing and
\* publishes no event.
C7_PreviewPersistsNothing ==
    [][(response'.op = "execute" /\ response'.preview_mode)
         => (UNCHANGED dbvars /\ events' = <<>>)]_vars

\* C8: when submodule.execute throws, the request is answered with status
\* `failed`.
C8_ThrowMeansFailed ==
    [][\A req \in ExecuteRequests, outcome \in Outcomes, insertError \in BOOLEAN :
         (/\ Execute("sitemap", req, outcome, insertError)
          /\ outcome.threw
          /\ response'.code = 200)
         => response'.status = "failed"]_vars

\* C9: a fetchWithFallback call whose direct response is a block signal has
\* attempted the browser path exactly once when it completes, and a result
\* it returns has usedBrowser = true.
C9_BrowserAttemptedOnce ==
    \A c \in Callers :
        (calls[c].pc = "done" /\ calls[c].blocked) =>
            /\ calls[c].attempts = 1
            /\ calls[c].result # "threw" => usedBrowser(calls[c])

\* the launches whose promise has not settled
PendingLaunches == {p \in DOMAIN launches : launches[p] = "pending"}

\* a step that calls chromium.launch
Launches == Len(launches') > Len(launches)

\* C10: the browser is launched only while there is neither an instance nor
\* a launch in flight, so at most one launch is in flight at any time; a
\* caller that arrives during a launch awaits it, and every caller receives
\* the shared instance.
C10_SingleSharedBrowser ==
    /\ [](Cardinality(PendingLaunches) <= 1)
    /\ [][Launches => (browserInstance = NoBrowser /\ PendingLaunches = {})]_vars
    /\ [][\A c \in Callers :
            (calls[c].pc = "getBrowser" /\ calls'[c].pc # "getBrowser"
               /\ PendingLaunches # {})
            => (calls'[c].pc = "awaitLaunch" /\ calls'[c].promise \in PendingLaunches
                  /\ ~Launches)]_vars
    /\ [][\A c \in Callers :
            (calls[c].browser = NoBrowser /\ calls'[c].browser # NoBrowser)
            => calls'[c].browser = browserInstance']_vars

\* one caller launched the browser, another arrived during the launch and
\* awaited it, and both hold the one instance
C10_Witness ==
    \E c1, c2 \in Callers :
        /\ calls[c1].how = "launched" /\ calls[c2].how = "awaited"
        /\ calls[c1].browser # NoBrowser
        /\ calls[c1].browser = calls[c2].browser
        /\ Len(launches) = 1

\* C11: every browsing context a call created is closed when the call has
\* completed, on every exit path (page-creation failure included).
C11_ContextsClosed ==
    \A c \in Callers : calls[c].pc = "done" => calls[c].contexts = 0

\* ---------------------------------------------------------- network calls
\* the two ways the code fetches: fetch() with an AbortController timer
\* (fetchWithFallback) and http.get with a socket timeout (_fetch, _simpleFetch)
NetKinds == {"fetch", "http"}
NetUrls == {"A", "B"}
OtherUrl(u) == IF u = "A" THEN "B" ELSE "A"

\* what a server does with a request for one URL: nothing, a non-200 status,
\* a redirect to the other URL, a body that ends, a body that never ends
ServerBehaviours == {"silent", "error", "redirect", "ok", "endless"}

\* a call that has just been made: fetch(url, {signal}) with setTimeout armed,
\* or protocol.get(url, {timeout})
NewRequest(kind, url, server) ==
    [kind |-> kind, url |-> url, server |-> server, pc |-> "waiting",
     idle |-> 0, elapsed |-> 0, timerArmed |-> kind = "fetch",
     hops |-> 0, result |-> NULL]

\* min(n + 1, TimeoutTicks)
ClockAfterTick(n) == IF n < TimeoutTicks THEN n + 1 ELSE n

\* a timer of the call has run out: the abort timer of fetch if it was not
\* cleared; the idle timeout of the socket of the current http request, or of
\* an earlier request of the redirect chain whose response was never consumed
timeoutDue ==
    /\ net.pc # "resolved"
    /\ IF net.kind = "fetch"
       THEN net.timerArmed /\ net.elapsed = TimeoutTicks
       ELSE net.idle = TimeoutTicks \/ (net.hops > 0 /\ net.elapsed = TimeoutTicks)

\* time passes without anything arriving
netTick ==
    /\ net.pc # "resolved"
    /\ ~timeoutDue
    /\ net.idle < TimeoutTicks \/ net.elapsed < TimeoutTicks
    /\ net' = [net EXCEPT !.idle = ClockAfterTick(net.idle),
                          !.elapsed = ClockAfterTick(net.elapsed)]
    /\ UNCHANGED <<routevars, fetchvars, pool, arg, ret>>

\* controller.abort() / req.on('timeout'): the call fails
netTimeout ==
    /\ timeoutDue
    /\ net' = [net EXCEPT !.pc = "resolved", !.result = "failure",
                          !.timerArmed = FALSE]
    /\ UNCHANGED <<routevars, fetchvars, pool, arg, ret>>

\* the status line and headers arrive
serverResponds ==
    /\ net.pc = "waiting"
    /\ ~timeoutDue
    /\ LET b == net.server[net.url] IN
       /\ b # "silent"
       /\ net' =
            IF b = "redirect"
            THEN IF net.kind = "fetch" /\ net.hops = MaxRedirects
                 THEN [net EXCEPT !.pc = "resolved", !.result = "failure",
                                  !.timerArmed = FALSE]
                 ELSE [net EXCEPT !.url = OtherUrl(net.url), !.idle = 0,
                                  !.hops = IF net.hops < MaxRedirects
                                           THEN net.hops + 1 ELSE net.hops]
            ELSE IF b = "error" /\ net.kind = "http"
            THEN [net EXCEPT !.pc = "resolved", !.result = "failure"]
            ELSE [net EXCEPT !.pc = "body", !.idle = 0, !.timerArmed = FALSE]
    /\ UNCHANGED <<routevars, fetchvars, pool, arg, ret>>

\* a chunk of the body arrives
serverChunk ==
    /\ net.pc = "body"
    /\ ~timeoutDue
    /\ net.idle > 0
    /\ net' = [net EXCEPT !.idle = 0]
    /\ UNCHANGED <<routevars, fetchvars, pool, arg, ret>>

\* the body ends: response.text() resolves / res.on('end')
serverEnds ==
    /\ net.pc = "body"
    /\ ~timeoutDue
    /\ net.server[net.url] # "endless"
    /\ net' = [net EXCEPT !.pc = "resolved", !.result = "content"]
    /\ UNCHANGED <<routevars, fetchvars, pool, arg, ret>>

InitNetwork ==
    /\ RouteInit /\ FetchInit /\ PoolIdle /\ PureIdle
    /\ net \in {NewRequest(kind, url, server) :
                  kind \in NetKinds, url \in NetUrls,
                  server \in [NetUrls -> ServerBehaviours]}

NextNetwork ==
    \/ netTick
    \/ netTimeout
    \/ serverResponds
    \/ serverChunk
    \/ serverEnds

\* the clock runs and a timer that has run out fires; the server owes nothing
SpecNetwork ==
    InitNetwork /\ [][NextNetwork]_vars /\ WF_vars(netTick) /\ WF_vars(netTimeout)

\* C12: every network call eventually resolves, to content or to failure,
\* whatever the server does.
C12_EveryFetchResolves == <>(net.pc = "resolved")

\* ------------------------------------------------- discovery execute: batches
DiscoverySubmodules == {"navigation", "sitemap", "seed-expansion"}

\* what processing one entity comes to: URLs found; no website in the entity;
\* the site cannot be loaded (_fetch resolves null); an exception inside the
\* try block; a redirect whose Location is relative, which makes the nested
\* _fetch throw inside its promise executor, a rejection nothing handles
EntityOutcomes == {"ok", "noWebsite", "loadFailed", "threw", "relativeRedirect"}

\* one batch with every entity of the list
batchSize_all(p) == p.n

\* entities.slice(i, i + concurrency); seed expansion awaits entity by entity
batchSize(p) == IF p.submodule = "seed-expansion" THEN 1 ELSE p.concurrency

\* the entities (1-based) of the batch that starts at loop index i
batchAt(p) == {e \in 1..p.n : p.i < e /\ e <= p.i + batchSize(p)}

RECURSIVE entitiesWhere(_, _, _)
\* the entities from e up to n whose outcome is in `kinds`, in input order
entitiesWhere(p, e, kinds) ==
    IF e > p.n THEN <<>>
    ELSE (IF p.outcomes[e] \in kinds THEN <<e>> ELSE <<>>)
           \o entitiesWhere(p, e + 1, kinds)

\* execute(entities, config, context) up to its loop
NewExecute(submodule, n, concurrency, outcomes) ==
    [submodule |-> submodule, n |-> n, concurrency |-> concurrency,
     outcomes |-> outcomes, i |-> 0, started |-> {}, inFlight |-> {},
     finished |-> {}, results |-> <<>>, errors |-> <<>>, pc |-> "loop"]

\* Promise.all(batch.map(processEntity)): every entity of the batch starts
startBatch ==
    /\ pool.pc = "loop"
    /\ pool.i < pool.n
    /\ pool' = [pool EXCEPT !.pc = "await", !.inFlight = batchAt(pool),
                            !.started = pool.started \cup batchAt(pool)]
    /\ UNCHANGED <<routevars, fetchvars, net, arg, ret>>

\* processEntity returns {urls, error}
entityFinishes(e) ==
    /\ pool.pc = "await"
    /\ e \in pool.inFlight
    /\ pool.outcomes[e] # "relativeRedirect"
    /\ pool' = [pool EXCEPT !.inFlight = pool.inFlight \ {e},
                            !.finished = pool.finished \cup {e}]
    /\ UNCHANGED <<routevars, fetchvars, net, arg, ret>>

\* this._fetch(res.headers.location).then(resolve) with a relative location:
\* the unhandled rejection ends the process
entityCrashes(e) ==
    /\ pool.pc = "await"
    /\ e \in pool.inFlight
    /\ pool.outcomes[e] = "relativeRedirect"
    /\ pool' = [pool EXCEPT !.pc = "crashed"]
    /\ UNCHANGED <<routevars, fetchvars, net, arg, ret>>

\* the await of the batch returns: results.push(...urls), errors.push(error)
collectBatch ==
    /\ pool.pc = "await"
    /\ pool.inFlight = {}
    /\ LET upto == [pool EXCEPT !.n = IF pool.i + batchSize(pool) < pool.n
                                      THEN pool.i + batchSize(pool) ELSE pool.n]
       IN
       pool' = [pool EXCEPT
                  !.pc = "loop",
                  !.i = pool.i + batchSize(pool),
                  !.results = pool.results \o entitiesWhere(upto, pool.i + 1, {"ok"}),
                  !.errors = pool.errors \o
                     entitiesWhere(upto, pool.i + 1, {"noWebsite", "loadFailed", "threw"})]
    /\ UNCHANGED <<routevars, fetchvars, net, arg, ret>>

\* the loop ends: results._errors = errors; return results
executeReturns ==
    /\ pool.pc = "loop"
    /\ pool.i >= pool.n
    /\ pool' = [pool EXCEPT !.pc = "done"]
    /\ UNCHANGED <<routevars, fetchvars, net, arg, ret>>

InitDiscovery ==
    /\ RouteInit /\ FetchInit /\ NetIdle /\ PureIdle
    /\ pool \in {NewExecute(submodule, n, concurrency, outcomes) :
                   submodule \in DiscoverySubmodules, concurrency \in 1..MaxConcurrency,
                   n \in {MaxEntities},
                   outcomes \in [1..MaxEntities -> EntityOutcomes]}

NextDiscovery ==
    \/ startBatch
    \/ \E e \in 1..MaxEntities : entityFinishes(e)
    \/ \E e \in 1..MaxEntities : entityCrashes(e)
    \/ collectBatch
    \/ executeReturns

SpecDiscovery == InitDiscovery /\ [][NextDiscovery]_vars

\* the batch an entity belongs to under config.concurrency
C13_BatchOf(e) == (e - 1) \div pool.concurrency

\* C13: never more than `concurrency` entities are in flight, and an entity
\* starts only when every entity of the earlier batches has finished.
C13_BoundedBatches ==
    /\ [](Cardinality(pool.inFlight) <= pool.concurrency)
    /\ [][\A e \in 1..MaxEntities :
            (e \notin pool.started /\ e \in pool'.started) =>
               \A f \in 1..MaxEntities :
                   C13_BatchOf(f) < C13_BatchOf(e) => f \in pool.finished]_vars

\* the second batch is in flight after the two entities of the first finished
C13_Witness ==
    /\ pool.concurrency = 2
    /\ pool.submodule # "seed-expansion"
    /\ pool.finished = {1, 2}
    /\ pool.inFlight = {3}

\* C14: execute always returns; what it returns holds the URLs of every
\* entity that succeeded and an error for every entity that failed.
C14_PartialSuccess ==
    /\ pool.pc # "crashed"
    /\ pool.pc = "done" =>
          /\ pool.results = entitiesWhere(pool, 1, {"ok"})
          /\ Range(pool.errors) = {e \in 1..pool.n : pool.outcomes[e] # "ok"}

\* ------------------------------------------------------ URLs and normalizeUrl
\* A URL string is modelled by its parts: scheme ("" if the string has none,
\* so that new URL(url) throws), host, path segments (the pathname is "/"
\* followed by the segments joined by "/": <<"a", "">> is "/a/") and the
\* names of its query parameters in order.
Hosts == {"x.com", "X.com"}
Segments == {"a", "A", ""}
Params == {"id", "b", "ref"}
trackingParams == {"ref"}

PathsUpTo(n) == UNION {[1..k -> Segments] : k \in 1..n}
QueriesUpTo(n) == UNION {[1..k -> Params] : k \in 0..n}

UrlStrings ==
    [scheme : {"https", ""}, host : Hosts, path : PathsUpTo(MaxPath),
     query : QueriesUpTo(MaxQuery)]

\* String.prototype.toLowerCase on the strings of the model
toLowerCase(x) ==
    IF x = "A" THEN "a" ELSE IF x = "X.com" THEN "x.com" ELSE x

\* the result of a function that has not been applied / that returned v
Nothing == <<>>
Returned(v) == <<v>>

\* s without its last element
Front(s) == SubSeq(s, 1, Len(s) - 1)

RECURSIVE Without(_, _)
\* searchParams.delete(param) for every param of names
Without(q, names) ==
    IF q = <<>> THEN <<>>
    ELSE (IF Head(q) \in names THEN <<>> ELSE <<Head(q)>>) \o Without(Tail(q), names)

RECURSIVE Only(_, _)
Only(q, name) ==
    IF q = <<>> THEN <<>>
    ELSE (IF Head(q) = name THEN <<Head(q)>> ELSE <<>>) \o Only(Tail(q), name)

\* searchParams.sort(): stable, by name
sortParams(q) == Only(q, "b") \o Only(q, "id") \o Only(q, "ref")

\* pathname.length > 1 && pathname.endsWith('/'): pathname.slice(0, -1)
stripTrailingSlash(path) ==
    IF Len(path) > 1 /\ path[Len(path)] = "" THEN Front(path) ELSE path

\* dedupe.normalizeUrl
normalizeUrl(url) ==
    IF url.scheme = ""
    THEN [url EXCEPT !.host = toLowerCase(url.host),
                     !.path = [i \in DOMAIN url.path |-> toLowerCase(url.path[i])]]
    ELSE [url EXCEPT !.host = toLowerCase(url.host),
                     !.path = stripTrailingSlash(url.path),
                     !.query = sortParams(Without(url.query, trackingParams))]

applyNormalizeUrl ==
    /\ ret = Nothing
    /\ ret' = Returned(normalizeUrl(arg))
    /\ UNCHANGED <<routevars, fetchvars, net, pool, arg>>

InitNormalize ==
    /\ RouteInit /\ FetchInit /\ NetIdle /\ PoolIdle
    /\ arg \in UrlStrings
    /\ ret = Nothing

NextNormalize == applyNormalizeUrl

SpecNormalize == InitNormalize /\ [][NextNormalize]_vars

\* C16: normalizeUrl(normalizeUrl(u)) = normalizeUrl(u) for every u.
C16_NormalizeIdempotent ==
    ret # Nothing => normalizeUrl(ret[1]) = ret[1]

\* ------------------------------------------------------ validation submodules
\* The URL strings the validators are given: three translations of one page,
\* a second spelling of the first, a string without scheme on another domain
\* whose path is a login page, and a URL with no TLD and a double slash.
ValidatorUrls ==
    { [scheme |-> "https", host |-> "x.com", path |-> <<"en", "a">>, query |-> <<>>],
      [scheme |-> "https", host |-> "x.com", path |-> <<"de", "a">>, query |-> <<>>],
      [scheme |-> "https", host |-> "x.com", path |-> <<"fr", "a">>, query |-> <<>>],
      [scheme |-> "https", host |-> "X.com", path |-> <<"en", "a", "">>, query |-> <<>>],
      [scheme |-> "", host |-> "y.com", path |-> <<"login">>, query |-> <<>>],
      [scheme |-> "https", host |-> "localhost", path |-> <<"a", "", "b">>, query |-> <<>>] }

DiscoveryMethods == {"sitemap", "navigation"}

\* a row of discovered URLs as the validators receive it
UrlRecords ==
    [url : ValidatorUrls, run_entity_id : 1..2, discovery_method : DiscoveryMethods,
     entity_website : {"x.com"}]

UrlLists == UNION {[1..k -> UrlRecords] : k \in 0..MaxUrls}

\* { ...urlRecord, reason, details }
rejected_invented(urlRecord, reason, details) ==
    [url |-> urlRecord.url, run_entity_id |-> 3 - urlRecord.run_entity_id,
     discovery_method |-> urlRecord.discovery_method,
     entity_website |-> urlRecord.entity_website,
     reason |-> reason, details |-> details]

rejected(urlRecord, reason, details) ==
    [url |-> urlRecord.url, run_entity_id |-> urlRecord.run_entity_id,
     discovery_method |-> urlRecord.discovery_method,
     entity_website |-> urlRecord.entity_website,
     reason |-> reason, details |-> details]

\* url.length, counted in path segments and query parameters
urlLength(url) == Len(url.path) + Len(url.query)

\* new URL(url) throws
unparsable(url) == url.scheme = ""

\* parsed.pathname.includes('//')
hasDoubleSlash(path) == \E i \in 1..(Len(path) - 1) : path[i] = ""

\* url-format.validateUrl: the error, or "" for a valid URL.  The strings of
\* the model are non-empty and hold no control characters.
validateUrl(url, options) ==
    IF urlLength(url) > options.max_url_length THEN "URL exceeds max length"
    ELSE IF unparsable(url) THEN "Invalid URL syntax"
    ELSE IF url.scheme \notin options.allowed_protocols THEN "Protocol not allowed"
    ELSE IF url.host = "" THEN "Missing hostname"
    ELSE IF options.require_tld /\ url.host = "localhost" THEN "Hostname missing TLD"
    ELSE IF hasDoubleSlash(url.path) THEN "Path contains double slashes"
    ELSE ""

UrlFormatConfigs ==
    [allowed_protocols : {{"http", "https"}}, max_url_length : {2, 2048},
     require_tld : BOOLEAN]

RECURSIVE urlFormatLoop(_, _, _)
\* url-format.execute: the for loop from urls[i] on
urlFormatLoop(urls, config, i) ==
    IF i > Len(urls) THEN [valid |-> <<>>, invalid |-> <<>>]
    ELSE LET rest == urlFormatLoop(urls, config, i + 1)
             error == validateUrl(urls[i].url, config)
         IN  IF error = ""
             THEN [rest EXCEPT !.valid = <<urls[i]>> \o rest.valid]
             ELSE [rest EXCEPT !.invalid =
                       <<rejected(urls[i], "invalid_format", error)>> \o rest.invalid]

\* path-filter.extractDomain: "https://" is put before a string without scheme
extractDomain(url) == toLowerCase(url.host)

\* path-filter.isSameDomain: no host of the model is a subdomain of another
isSameDomain(domain1, domain2) == domain1 = domain2

\* a pattern, given by the path segment it looks for, matches the URL
patternTest(pattern, url) ==
    \E i \in 1..Len(url.path) : toLowerCase(url.path[i]) = pattern

defaultExcludePatterns == {"login"}

\* path-filter.filterUrl: the reason for filtering, or "" to keep
filterUrl(urlRecord, options) ==
    IF \E p \in options.includeList : patternTest(p, urlRecord.url) THEN ""
    ELSE IF /\ options.same_domain_only
            /\ ~isSameDomain(extractDomain(urlRecord.url), options.entityDomain)
         THEN "Different domain"
    ELSE IF \E p \in options.excludeList : patternTest(p, urlRecord.url)
         THEN "Matched exclude pattern"
    ELSE ""

PathFilterConfigs ==
    [exclude_patterns : {{}}, include_patterns : {{}, {"login"}},
     use_default_excludes : BOOLEAN, same_domain_only : BOOLEAN]

RECURSIVE pathFilterLoop(_, _, _)
\* path-filter.execute: the for loop from urls[i] on
pathFilterLoop(urls, config, i) ==
    IF i > Len(urls) THEN [valid |-> <<>>, invalid |-> <<>>]
    ELSE LET rest == pathFilterLoop(urls, config, i + 1)
             reason == filterUrl(urls[i],
                 [excludeList |-> IF config.use_default_excludes
                                  THEN defaultExcludePatterns \cup config.exclude_patterns
                                  ELSE config.exclude_patterns,
                  includeList |-> config.include_patterns,
                  same_domain_only |-> config.same_domain_only,
                  entityDomain |-> toLowerCase(urls[i].entity_website)])
         IN  IF reason = ""
             THEN [rest EXCEPT !.valid = <<urls[i]>> \o rest.valid]
             ELSE [rest EXCEPT !.invalid =
                       <<rejected(urls[i], "filtered_path", reason)>> \o rest.invalid]

\* ---- dedupe
\* [...urls].sort(preferred first): Array.prototype.sort is stable
preferredFirst_reversed(urls, method) ==
    LET n == Len(urls)
        backwards == [i \in 1..n |-> urls[n + 1 - i]]
    IN  SelectSeq(backwards, LAMBDA u : u.discovery_method = method)
            \o SelectSeq(urls, LAMBDA u : u.discovery_method # method)

preferredFirst(urls, method) ==
    SelectSeq(urls, LAMBDA u : u.discovery_method = method)
        \o SelectSeq(urls, LAMBDA u : u.discovery_method # method)

\* dedupe_across_entities ? normalizedUrl : `${run_entity_id}:${normalizedUrl}`
dedupeKey(urlRecord, dedupe_across_entities) ==
    IF dedupe_across_entities
    THEN <<0, normalizeUrl(urlRecord.url)>>
    ELSE <<urlRecord.run_entity_id, normalizeUrl(urlRecord.url)>>

DedupeConfigs ==
    [dedupe_across_entities : BOOLEAN, prefer_discovery_method : {NULL, "sitemap"}]

RECURSIVE dedupeLoop(_, _, _, _)
\* dedupe.execute: the for loop from sortedUrls[i] on; seen maps the keys met
\* so far to the record kept for them
dedupeLoop(sortedUrls, config, i, seen) ==
    IF i > Len(sortedUrls) THEN [valid |-> <<>>, invalid |-> <<>>]
    ELSE LET urlRecord == sortedUrls[i]
             key == dedupeKey(urlRecord, config.dedupe_across_entities)
         IN  IF key \in DOMAIN seen
             THEN LET rest == dedupeLoop(sortedUrls, config, i + 1, seen)
                  IN  [rest EXCEPT !.invalid =
                          <<rejected(urlRecord, "duplicate", seen[key].discovery_method)>>
                              \o rest.invalid]
             ELSE LET rest == dedupeLoop(sortedUrls, config, i + 1,
                                         (key :> urlRecord) @@ seen)
                  IN  [rest EXCEPT !.valid = <<urlRecord>> \o rest.valid]

dedupe(urls, config) ==
    dedupeLoop(IF config.prefer_discovery_method # NULL
               THEN preferredFirst(urls, config.prefer_discovery_method)
               ELSE urls,
               config, 1, <<>>)

\* ---- lang-dedup
\* LANG_PATTERNS: two letters (here one of three codes) between the first two
\* slashes of the pathname
isLanguagePrefix(path) == Len(path) >= 2 /\ toLowerCase(path[1]) \in {"en", "de", "fr"}

RECURSIVE trimLeft(_)
trimLeft(segs) ==
    IF segs # <<>> /\ Head(segs) = "" THEN trimLeft(Tail(segs)) ELSE segs

RECURSIVE trimRight(_)
trimRight(segs) ==
    IF segs # <<>> /\ segs[Len(segs)] = "" THEN trimRight(Front(segs)) ELSE segs

\* lang-dedup.normalizeSlug: lower case, no trailing slashes, one leading slash
normalizeSlug(segs) ==
    [raw |-> Nothing,
     segs |-> trimLeft(trimRight([i \in DOMAIN segs |-> toLowerCase(segs[i])]))]

\* lang-dedup.extractLanguageAndSlug; a string new URL() rejects is its own slug
extractLanguageAndSlug(url) ==
    IF unparsable(url) THEN [language |-> NULL, slug |-> [raw |-> Returned(url), segs |-> <<>>]]
    ELSE IF isLanguagePrefix(url.path)
         THEN [language |-> toLowerCase(url.path[1]), slug |-> normalizeSlug(Tail(url.path))]
         ELSE [language |-> NULL, slug |-> normalizeSlug(url.path)]

\* { ...urlRecord, _extracted_language, _extracted_slug }
extracted(urlRecord) ==
    [url |-> urlRecord.url, run_entity_id |-> urlRecord.run_entity_id,
     discovery_method |-> urlRecord.discovery_method,
     entity_website |-> urlRecord.entity_website,
     _extracted_language |-> extractLanguageAndSlug(urlRecord.url).language,
     _extracted_slug |-> extractLanguageAndSlug(urlRecord.url).slug]

\* the invalid entry of a translation: the fields of the group member, the
\* reason, and the URL and language of the canonical member in the details
translationOf(urlRecord, canonical) ==
    [url |-> urlRecord.url, run_entity_id |-> urlRecord.run_entity_id,
     discovery_method |-> urlRecord.discovery_method,
     entity_website |-> urlRecord.entity_website,
     _extracted_language |-> urlRecord._extracted_language,
     _extracted_slug |-> urlRecord._extracted_slug,
     reason |-> "language_duplicate",
     details |-> [url |-> canonical.url,
                  language |-> IF canonical._extracted_language = NULL
                               THEN "unknown" ELSE canonical._extracted_language]]

\* position of a language under localeCompare, null counting as 'zzz'
alphabetical(language) ==
    CASE language = "de" -> 1 [] language = "en" -> 2 [] language = "fr" -> 3
      [] OTHER -> 4

\* Array.prototype.find over a group: the least of the indices in S
firstOf(S) == CHOOSE i \in S : \A j \in S : i <= j

RECURSIVE firstPreferred(_, _, _)
\* the for loop of selectCanonical from languagePreference[k] on: the index of
\* the match, 0 if no preferred language occurs
firstPreferred(urlGroup, languagePreference, k) ==
    IF k > Len(languagePreference) THEN 0
    ELSE IF \E i \in 1..Len(urlGroup) :
                urlGroup[i]._extracted_language = languagePreference[k]
         THEN firstOf({i \in 1..Len(urlGroup) :
                          urlGroup[i]._extracted_language = languagePreference[k]})
         ELSE firstPreferred(urlGroup, languagePreference, k + 1)

\* lang-dedup.selectCanonical, as the index of the member in the group
selectCanonical_first(urlGroup, languagePreference, fallback) == 1

selectCanonical(urlGroup, languagePreference, fallback) ==
    IF firstPreferred(urlGroup, languagePreference, 1) # 0
    THEN firstPreferred(urlGroup, languagePreference, 1)
    ELSE IF fallback = "alphabetical"
         THEN firstOf({i \in 1..Len(urlGroup) :
                  \A j \in 1..Len(urlGroup) :
                      alphabetical(urlGroup[i]._extracted_language)
                          <= alphabetical(urlGroup[j]._extracted_language)})
         ELSE 1

RECURSIVE keysInOrder(_, _)
\* the keys of a Map in insertion order, for the entries keyOf gives
keysInOrder(s, seenKeys) ==
    IF s = <<>> THEN <<>>
    ELSE IF Head(s) \in seenKeys THEN keysInOrder(Tail(s), seenKeys)
         ELSE <<Head(s)>> \o keysInOrder(Tail(s), seenKeys \cup {Head(s)})

\* entityGroups flattened: the slug groups in the order the two loops visit
\* them, entities by first occurrence, slugs by first occurrence in the entity
slugGroups(urls) ==
    LET members == [i \in DOMAIN urls |-> extracted(urls[i])]
        entityIds == keysInOrder([i \in DOMAIN urls |-> urls[i].run_entity_id], {})
        ofEntity(e) == SelectSeq(members, LAMBDA u : u.run_entity_id = e)
        slugsOf(e) == keysInOrder([i \in DOMAIN ofEntity(e) |->
                                      ofEntity(e)[i]._extracted_slug], {})
        groupsOf(e) == [k \in DOMAIN slugsOf(e) |->
                           SelectSeq(ofEntity(e),
                                     LAMBDA u : u._extracted_slug = slugsOf(e)[k])]
        RECURSIVE flat(_)
        flat(k) == IF k > Len(entityIds) THEN <<>>
                   ELSE groupsOf(entityIds[k]) \o flat(k + 1)
    IN  flat(1)

LangDedupConfigs ==
    [language_preference : {<<"de", "en">>, <<"fr">>, <<>>},
     fallback : {"first_found", "alphabetical"}]

RECURSIVE langDedupLoop(_, _, _)
\* lang-dedup.execute: the loop over the slug groups from groups[g] on
langDedupLoop(groups, config, g) ==
    IF g > Len(groups) THEN [valid |-> <<>>, invalid |-> <<>>]
    ELSE LET rest == langDedupLoop(groups, config, g + 1)
             urlGroup == groups[g]
         IN  IF Len(urlGroup) = 1
             THEN [rest EXCEPT !.valid = <<urlGroup[1]>> \o rest.valid]
             ELSE LET c == selectCanonical(urlGroup, config.language_preference,
                                           config.fallback)
                      others == SelectSeq([i \in DOMAIN urlGroup |-> <<i, urlGroup[i]>>],
                                          LAMBDA m : m[1] # c)
                  IN  [valid |-> <<urlGroup[c]>> \o rest.valid,
                       invalid |-> [i \in DOMAIN others |->
                                       translationOf(others[i][2], urlGroup[c])]
                                   \o rest.invalid]

\* ---- the four execute functions, applied to the list in arg
executed(submodule, config, result) ==
    Returned([submodule |-> submodule, config |-> config,
              valid |-> result.valid, invalid |-> result.invalid])

urlFormatExecute ==
    /\ ret = Nothing
    /\ \E config \in UrlFormatConfigs :
           ret' = executed("url-format", config, urlFormatLoop(arg, config, 1))
    /\ UNCHANGED <<routevars, fetchvars, net, pool, arg>>

pathFilterExecute ==
    /\ ret = Nothing
    /\ \E config \in PathFilterConfigs :
           ret' = executed("path-filter", config, pathFilterLoop(arg, config, 1))
    /\ UNCHANGED <<routevars, fetchvars, net, pool, arg>>

dedupeExecute ==
    /\ ret = Nothing
    /\ \E config \in DedupeConfigs :
           ret' = executed("dedupe", config, dedupe(arg, config))
    /\ UNCHANGED <<routevars, fetchvars, net, pool, arg>>

langDedupExecute ==
    /\ ret = Nothing
    /\ \E config \in LangDedupConfigs :
           ret' = executed("lang-dedup", config, langDedupLoop(slugGroups(arg), config, 1))
    /\ UNCHANGED <<routevars, fetchvars, net, pool, arg>>

InitValidators ==
    /\ RouteInit /\ FetchInit /\ NetIdle /\ PoolIdle
    /\ arg \in UrlLists
    /\ ret = Nothing

NextValidators ==
    \/ urlFormatExecute
    \/ pathFilterExecute
    \/ dedupeExecute
    \/ langDedupExecute

SpecValidators == InitValidators /\ [][NextValidators]_vars

\* the input fields of an output item
C15_InputFields(item) ==
    [url |-> item.url, run_entity_id |-> item.run_entity_id,
     discovery_method |-> item.discovery_method,
     entity_website |-> item.entity_website]

\* how many items of s carry the input fields of v
C15_Count(s, v) == Cardinality({i \in DOMAIN s : C15_InputFields(s[i]) = v})

\* C15: every validation submodule returns as many items as it was given, and
\* its output items are the input items, each exactly once, with at most some
\* fields appended.
C15_NothingLostOrInvented ==
    ret # Nothing =>
        /\ Len(ret[1].valid) + Len(ret[1].invalid) = Len(arg)
        /\ \A v \in UrlRecords :
               C15_Count(ret[1].valid \o ret[1].invalid, v) = C15_Count(arg, v)

C15_Witness ==
    /\ ret # Nothing
    /\ ret[1].submodule = "lang-dedup"
    /\ Len(arg) = MaxUrls
    /\ Len(ret[1].valid) = 2
    /\ Len(ret[1].invalid) = 1

\* the input positions whose record has the dedup key of arg[i]
C17_Candidates(i) ==
    {j \in DOMAIN arg :
        dedupeKey(arg[j], ret[1].config.dedupe_across_entities)
            = dedupeKey(arg[i], ret[1].config.dedupe_across_entities)}

C17_Preferred(i) ==
    {j \in C17_Candidates(i) :
        /\ ret[1].config.prefer_discovery_method # NULL
        /\ arg[j].discovery_method = ret[1].config.prefer_discovery_method}

C17_Least(S) == CHOOSE j \in S : \A k \in S : j <= k

\* the input position the claim says is kept for the key of arg[i]
C17_Kept(i) ==
    IF C17_Preferred(i) # {} THEN C17_Least(C17_Preferred(i))
    ELSE C17_Least(C17_Candidates(i))

\* the positions of s whose record has the dedup key of arg[i]
C17_WithKey(s, i) ==
    {j \in DOMAIN s :
        dedupeKey(s[j], ret[1].config.dedupe_across_entities)
            = dedupeKey(arg[i], ret[1].config.dedupe_across_entities)}

\* C17: exact dedup keeps, for every dedup key, exactly one record, the first
\* in input order found by the preferred discovery method if there is one and
\* the first in input order otherwise, and rejects all others of the key as
\* `duplicate`.
C17_FirstOccurrenceKept ==
    (ret # Nothing /\ ret[1].submodule = "dedupe") =>
        \A i \in DOMAIN arg :
            /\ Cardinality(C17_WithKey(ret[1].valid, i)) = 1
            /\ \A j \in C17_WithKey(ret[1].valid, i) :
                   ret[1].valid[j] = arg[C17_Kept(i)]
            /\ Cardinality(C17_WithKey(ret[1].invalid, i))
                   = Cardinality(C17_Candidates(i)) - 1
            /\ \A j \in C17_WithKey(ret[1].invalid, i) :
                   ret[1].invalid[j].reason = "duplicate"

\* two spellings of one URL found by the preferred method after a third
\* record of the same key found by another method
C17_Witness ==
    /\ ret # Nothing
    /\ ret[1].submodule = "dedupe"
    /\ ret[1].config.prefer_discovery_method = "sitemap"
    /\ Len(arg) = 3
    /\ C17_Candidates(1) = {1, 2, 3}
    /\ C17_Preferred(1) = {2, 3}
    /\ arg[2].url # arg[3].url

\* the input positions in the slug group of arg[i]: same entity, same slug
C18_Group(i) ==
    {j \in DOMAIN arg :
        /\ arg[j].run_entity_id = arg[i].run_entity_id
        /\ extractLanguageAndSlug(arg[j].url).slug = extractLanguageAndSlug(arg[i].url).slug}

\* the positions of s that belong to the slug group of arg[i]
C18_InGroup(s, i) ==
    {j \in DOMAIN s :
        /\ s[j].run_entity_id = arg[i].run_entity_id
        /\ extractLanguageAndSlug(s[j].url).slug = extractLanguageAndSlug(arg[i].url).slug}

C18_Languages(i) == {extractLanguageAndSlug(arg[j].url).language : j \in C18_Group(i)}

\* the positions of the preference list whose language occurs in the group
C18_Occurring(i) ==
    {k \in DOMAIN ret[1].config.language_preference :
        ret[1].config.language_preference[k] \in C18_Languages(i)}

\* kept is the member the claim names for the slug group of arg[i]
C18_IsCanonical(kept, i) ==
    IF C18_Occurring(i) # {}
    THEN kept._extracted_language
             = ret[1].config.language_preference[C17_Least(C18_Occurring(i))]
    ELSE IF ret[1].config.fallback = "alphabetical"
         THEN \A l \in C18_Languages(i) :
                  alphabetical(kept._extracted_language) <= alphabetical(l)
         ELSE C15_InputFields(kept) = arg[C17_Least(C18_Group(i))]

\* C18: language dedup keeps exactly one member of every slug group of an
\* entity: the only member, or else the member in the earliest language of
\* the preference list that occurs in the group, or by the fallback (first
\* found, or first alphabetically) if none occurs; every other member is
\* rejected as `language_duplicate` with the kept URL in the details.
C18_CanonicalPerSlug ==
    (ret # Nothing /\ ret[1].submodule = "lang-dedup") =>
        \A i \in DOMAIN arg :
            /\ Cardinality(C18_InGroup(ret[1].valid, i)) = 1
            /\ Cardinality(C18_InGroup(ret[1].invalid, i))
                   = Cardinality(C18_Group(i)) - 1
            /\ \A v \in C18_InGroup(ret[1].valid, i) :
                   /\ Cardinality(C18_Group(i)) > 1
                          => C18_IsCanonical(ret[1].valid[v], i)
                   /\ \A j \in C18_InGroup(ret[1].invalid, i) :
                          /\ ret[1].invalid[j].reason = "language_duplicate"
                          /\ ret[1].invalid[j].details.url = ret[1].valid[v].url

\* the example of the claim: en, de, fr of one page with preference de, en
C18_Witness ==
    /\ ret # Nothing
    /\ ret[1].submodule = "lang-dedup"
    /\ ret[1].config.language_preference = <<"de", "en">>
    /\ Len(arg) = 3
    /\ C18_Group(1) = {1, 2, 3}
    /\ <<arg[1].url.path[1], arg[2].url.path[1], arg[3].url.path[1]>> = <<"en", "de", "fr">>
    /\ Len(ret[1].valid) = 1
    /\ ret[1].valid[1].url = arg[2].url

\* ------------------------------------------------------------ sitemap discovery
\* What the site serves: at the sitemap location a sitemap index, a urlset or
\* nothing; docs[i] says what is behind the i-th <loc> of the index (or, for a
\* urlset, that the i-th <url> exists).
TopKinds == {"sitemapindex", "urlset", "none"}
ChildKinds == {"urlset", "urlset.gz", "unreachable"}

\* the <url> entries of the i-th child sitemap
entriesOf(i) == [k \in 1..EntriesPerChild |-> 10 * i + k]

\* the bytes a server sends for a document: a gzip file starts with 1f 8b
gzipHeader == <<31, 139>>
bodyOf(kind, i) ==
    [header |-> IF kind = "urlset.gz" THEN gzipHeader ELSE <<>>, entries |-> entriesOf(i)]

\* Buffer.concat(chunks).toString('utf-8'): a byte that is not valid UTF-8
\* becomes U+FFFD
toStringUtf8(body) ==
    [body EXCEPT !.header = [k \in DOMAIN body.header |->
                                IF body.header[k] >= 128 THEN 65533 ELSE body.header[k]]]

\* Buffer.from(content, 'binary'): the low byte of every code unit
fromBinary(content) ==
    [content EXCEPT !.header = [k \in DOMAIN content.header |-> content.header[k] % 256]]

\* gunzipSync throws unless the buffer starts with the gzip header
gunzipThrows(buffer) == buffer.header # gzipHeader

\* entries.slice(0, maxUrls)
slice(s, n) == SubSeq(s, 1, IF n < Len(s) THEN (IF n < 0 THEN 0 ELSE n) ELSE Len(s))

\* sitemap._fetchSingleSitemap for the i-th child
fetchSingleSitemap(kind, i, maxUrls) ==
    IF kind = "unreachable" THEN <<>>
    ELSE LET content == toStringUtf8(bodyOf(kind, i))
         IN  IF kind = "urlset.gz"
             THEN IF gunzipThrows(fromBinary(content)) THEN <<>>
                  ELSE slice(content.entries, maxUrls)
             ELSE slice(content.entries, maxUrls)

RECURSIVE allResults(_, _, _)
\* Promise.all(fetchPromises), pushed into urls one child after the other
allResults(docs, i, maxUrls) ==
    IF i > Len(docs) THEN <<>>
    ELSE fetchSingleSitemap(docs[i], i, maxUrls) \o allResults(docs, i + 1, maxUrls)

\* sitemap._fetchSitemap, the version that fetches the children in parallel
fetchSitemap(site, includeNested, maxUrls) ==
    IF site.top = "none"
    THEN [urls |-> <<>>, error |-> "SITEMAP_NOT_FOUND", fetched |-> {}]
    ELSE IF site.top = "sitemapindex" /\ site.docs # <<>> /\ includeNested
    THEN [urls |-> slice(allResults(site.docs, 1, maxUrls), maxUrls), error |-> NULL,
          fetched |-> DOMAIN site.docs]
    ELSE IF site.top = "urlset" /\ site.docs # <<>>
    THEN [urls |-> slice([i \in DOMAIN site.docs |-> i], maxUrls), error |-> NULL,
          fetched |-> {}]
    ELSE [urls |-> <<>>, error |-> NULL, fetched |-> {}]

nestedLimit == 5

RECURSIVE nestedLoop(_, _, _, _, _)
\* the loop over sitemaps.slice(0, 5) of the version that fetches the
\* children one after the other
nestedLoop(docs, i, maxUrls, urls, fetched) ==
    IF i > Len(docs) \/ i > nestedLimit \/ Len(urls) >= maxUrls
    THEN [urls |-> urls, error |-> NULL, fetched |-> fetched]
    ELSE nestedLoop(docs, i + 1, maxUrls,
                    urls \o fetchSingleSitemap(docs[i], i, maxUrls - Len(urls)),
                    fetched \cup {i})

fetchSitemapSequential(site, includeNested, maxUrls) ==
    IF site.top = "sitemapindex" /\ site.docs # <<>> /\ includeNested
    THEN nestedLoop(site.docs, 1, maxUrls, <<>>, {})
    ELSE fetchSitemap(site, includeNested, maxUrls)

Sites == [top : TopKinds, docs : UNION {[1..k -> ChildKinds] : k \in 0..MaxChildren}]

SitemapCalls == [site : Sites, includeNested : BOOLEAN, maxUrls : {3, 500}]

sitemapParallel ==
    /\ ret = Nothing
    /\ ret' = Returned(fetchSitemap(arg.site, arg.includeNested, arg.maxUrls))
    /\ UNCHANGED <<routevars, fetchvars, net, pool, arg>>

sitemapSequential ==
    /\ ret = Nothing
    /\ ret' = Returned(fetchSitemapSequential(arg.site, arg.includeNested, arg.maxUrls))
    /\ UNCHANGED <<routevars, fetchvars, net, pool, arg>>

InitSitemap ==
    /\ RouteInit /\ FetchInit /\ NetIdle /\ PoolIdle
    /\ arg \in SitemapCalls
    /\ ret = Nothing

NextSitemap ==
    \/ sitemapParallel
    \/ sitemapSequential

SpecSitemap == InitSitemap /\ [][NextSitemap]_vars

\* the URLs listed by the child sitemaps of the index that can be reached
C19_ChildUrls ==
    UNION {Range(entriesOf(i)) : i \in {j \in DOMAIN arg.site.docs :
                                            arg.site.docs[j] # "unreachable"}}

\* C19: for a sitemap index whose children are followed, every child is
\* fetched, the result is the union of the children's URLs unless the cap cut
\* it, and it never holds more than max_urls_per_entity URLs.
C19_UnionOfChildren ==
    (ret # Nothing /\ arg.site.top = "sitemapindex" /\ arg.includeNested) =>
        /\ Len(ret[1].urls) <= arg.maxUrls
        /\ Range(ret[1].urls) \subseteq C19_ChildUrls
        /\ Len(ret[1].urls) < arg.maxUrls =>
               /\ ret[1].fetched = DOMAIN arg.site.docs
               /\ Range(ret[1].urls) = C19_ChildUrls

\* -------------------------------------------------------------- seed expansion
\* One entity of seed-expansion.execute.  URLs are numbers: the seeds are
\* 1..MaxSeeds (already deduplicated by the Set), links point to 1..LastUrl.
\* A seed page loads with its links, fails to load (_fetch resolves null), or
\* answers with a redirect whose Location is relative.
LastUrl == MaxSeeds + 1
SeedBehaviours == {"ok", "failed", "relativeRedirect"}
LinkLists == UNION {[1..k -> 1..LastUrl] : k \in 0..MaxLinks}
SeedPages ==
    {p \in [behaviour : SeedBehaviours, links : LinkLists] :
        p.behaviour # "ok" => p.links = <<>>}

SeedCalls ==
    [seedUrls : {[i \in 1..MaxSeeds |-> i]}, pages : [1..MaxSeeds -> SeedPages],
     maxUrlsPerEntity : {2, 4}, maxUrlsPerSeed : {1, 2}]

RECURSIVE linksLoop(_, _, _, _)
\* the loop over the links of a page in _extractLinks, from links[k] on
linksLoop(links, k, maxUrls, urls) ==
    IF k > Len(links) \/ Len(urls) >= maxUrls THEN urls
    ELSE linksLoop(links, k + 1, maxUrls,
                   IF links[k] \in Range(urls) THEN urls ELSE Append(urls, links[k]))

\* seed-expansion._extractLinks for a page that does not redirect
extractLinks(page, maxUrls) ==
    IF page.behaviour = "failed" THEN [urls |-> <<>>, error |-> "PAGE_LOAD_ERROR"]
    ELSE LET urls == linksLoop(page.links, 1, maxUrls, <<>>)
         IN  [urls |-> urls, error |-> IF urls = <<>> THEN "NO_LINKS_FOUND" ELSE NULL]

RECURSIVE addLinks(_, _, _, _, _)
\* the loop that adds the links of one seed to discovered, from urls[k] on
addLinks(discovered, urls, k, seedUrl, maxUrlsPerEntity) ==
    IF k > Len(urls) \/ Len(discovered) >= maxUrlsPerEntity THEN discovered
    ELSE addLinks(IF \E d \in Range(discovered) : d.url = urls[k] THEN discovered
                  ELSE Append(discovered, [url |-> urls[k], seed_url |-> seedUrl]),
                  urls, k + 1, seedUrl, maxUrlsPerEntity)

\* the state of the loop over the seeds: next seed, discovered (the Map, in
\* insertion order), the seeds fetched so far, the per-seed errors
NewExpansion ==
    [i |-> 1, discovered |-> <<>>, fetched |-> {}, entityErrors |-> <<>>, pc |-> "loop"]

\* one iteration of the loop over seedUrls for a seed that loads or fails
expandSeed ==
    /\ ret[1].pc = "loop"
    /\ ret[1].i <= Len(arg.seedUrls)
    /\ Len(ret[1].discovered) < arg.maxUrlsPerEntity
    /\ arg.pages[ret[1].i].behaviour # "relativeRedirect"
    /\ LET seedUrl == arg.seedUrls[ret[1].i]
           seedResult == extractLinks(arg.pages[ret[1].i], arg.maxUrlsPerSeed)
           withSeed == IF /\ (seedResult.error = NULL \/ seedResult.urls # <<>>)
                          /\ ~\E d \in Range(ret[1].discovered) : d.url = seedUrl
                       THEN Append(ret[1].discovered, [url |-> seedUrl, seed_url |-> seedUrl])
                       ELSE ret[1].discovered
       IN  ret' = Returned([ret[1] EXCEPT
                     !.i = @ + 1,
                     !.fetched = @ \cup {ret[1].i},
                     !.discovered = addLinks(withSeed, seedResult.urls, 1, seedUrl,
                                             arg.maxUrlsPerEntity),
                     !.entityErrors = IF seedResult.error # NULL
                                      THEN Append(@, seedUrl) ELSE @])
    /\ UNCHANGED <<routevars, fetchvars, net, pool, arg>>

\* the seed answers 3xx with a relative Location: the get() of the nested
\* _fetch throws, the rejection of `.then(resolve)` is unhandled and ends the
\* process
seedRedirects ==
    /\ ret[1].pc = "loop"
    /\ ret[1].i <= Len(arg.seedUrls)
    /\ Len(ret[1].discovered) < arg.maxUrlsPerEntity
    /\ arg.pages[ret[1].i].behaviour = "relativeRedirect"
    /\ ret' = Returned([ret[1] EXCEPT !.fetched = @ \cup {ret[1].i}, !.pc = "crashed"])
    /\ UNCHANGED <<routevars, fetchvars, net, pool, arg>>

\* the loop ends: all seeds visited, or the entity cap reached
seedsDone ==
    /\ ret[1].pc = "loop"
    /\ \/ ret[1].i > Len(arg.seedUrls)
       \/ Len(ret[1].discovered) >= arg.maxUrlsPerEntity
    /\ ret' = Returned([ret[1] EXCEPT !.pc = "done"])
    /\ UNCHANGED <<routevars, fetchvars, net, pool, arg>>

InitSeeds ==
    /\ RouteInit /\ FetchInit /\ NetIdle /\ PoolIdle
    /\ arg \in SeedCalls
    /\ ret = Returned(NewExpansion)

NextSeeds ==
    \/ expandSeed
    \/ seedRedirects
    \/ seedsDone

SpecSeeds == InitSeeds /\ [][NextSeeds]_vars

\* the links taken from the page of seed s: what it found, itself excepted
C20_LinksFrom(s) ==
    {k \in DOMAIN ret[1].discovered :
        ret[1].discovered[k].seed_url = s /\ ret[1].discovered[k].url # s}

\* C20: seed expansion returns no URL twice for an entity, at most
\* max_urls_per_entity URLs, at most max_urls_per_seed links of any one seed
\* page, and a seed that fails to load does not keep the remaining seeds
\* from being fetched.
C20_SeedCaps ==
    /\ \A j, k \in DOMAIN ret[1].discovered :
           ret[1].discovered[j].url = ret[1].discovered[k].url => j = k
    /\ Len(ret[1].discovered) <= arg.maxUrlsPerEntity
    /\ \A s \in Range(arg.seedUrls) :
           Cardinality(C20_LinksFrom(s)) <= arg.maxUrlsPerSeed
    /\ ret[1].pc # "crashed"
    /\ ret[1].pc = "done" =>
           \/ ret[1].fetched = DOMAIN arg.seedUrls
           \/ Len(ret[1].discovered) >= arg.maxUrlsPerEntity

\* ------------------------------------------------- routes and missing tables
\* A query on a relation that does not exist returns error code 42P01.
\* POST /:type/:name/execute with the outcome of the insert into
\* submodule_runs: on 42P01 the route answers 503 (results_lost) after the
\* run of mode 1 was created and submodule_start was published
ExecuteDb(name, req, outcome, insertError, runsMissing) ==
    LET mode == ResolveMode(req)
        run_id == IF mode = 1 THEN Len(pipeline_runs) + 1 ELSE req.run_id
        stores == /\ mode # 0
                  /\ run_id # NoId
                  /\ ~(mode = 3 /\ LoadEntities(req.run_entity_ids) = <<>>)
    IN
    IF runsMissing /\ stores
    THEN /\ mode = 1 => Len(pipeline_runs) < MaxPipelineRuns
         /\ pipeline_runs' = IF mode = 1
                             THEN Append(pipeline_runs, [project_id |-> req.project_id])
                             ELSE pipeline_runs
         /\ run_entities' = IF mode = 1
                            THEN run_entities \o
                                 [i \in 1..Len(req.entities) |->
                                    [run_id |-> run_id, snapshot_id |-> req.entities[i]]]
                            ELSE run_entities
         /\ response' = Reply("execute", 503)
         /\ events' = <<[type |-> "submodule_start", id |-> NoId]>>
         /\ UNCHANGED <<submodule_runs, approvals, discovered_urls>>
    ELSE Execute(name, req, outcome, insertError)

\* the ids of the submodule runs of one pipeline run
runsOf(runId) ==
    SelectSeq([i \in DOMAIN submodule_runs |-> i],
              LAMBDA i : submodule_runs[i].run_id = runId)

\* GET /runs/:runId: the rows of the run, [] when the table does not exist
ListRuns(runId, runsMissing) ==
    /\ response' = [op |-> "list", code |-> 200, status |-> NULL,
                    preview_mode |-> FALSE, already_approved |-> FALSE,
                    rows |-> IF runsMissing THEN <<>> ELSE runsOf(runId)]
    /\ events' = <<>>
    /\ UNCHANGED dbvars

ExecuteDegraded ==
    /\ \E req \in StoredRequests, outcome \in Outcomes, insertError \in BOOLEAN,
          runsMissing \in BOOLEAN :
           ExecuteDb("sitemap", req, outcome, insertError, runsMissing)
    /\ UNCHANGED <<fetchvars, auxvars>>

ListRunsAny ==
    /\ \E runId \in RunIds, runsMissing \in BOOLEAN : ListRuns(runId, runsMissing)
    /\ UNCHANGED <<fetchvars, auxvars>>

\* the routes that touch submodule_runs and the approvals table, each with
\* the table present or missing
NextDegraded ==
    \/ ExecuteDegraded
    \/ ListRunsAny
    \/ PatchAny

SpecDegraded == Init /\ [][NextDegraded]_vars

\* C21: with a missing table no route fails as a whole: the run listing is
\* empty; with the approvals table missing, approval creation creates no row
\* and the execute is answered with its results; with submodule_runs missing,
\* the execute is answered with its results too.
C21_DegradesGracefully ==
    [][/\ \A runId \in RunIds :
             ListRuns(runId, TRUE) => response'.code = 200 /\ response'.rows = <<>>
       /\ \A req \in StoredRequests, outcome \in Outcomes :
             ExecuteDb("sitemap", req, outcome, TRUE, FALSE)
                 => response'.code = 200 /\ approvals' = approvals
       /\ \A req \in StoredRequests, outcome \in Outcomes, insertError \in BOOLEAN :
             ExecuteDb("sitemap", req, outcome, insertError, TRUE)
                 => response'.code = 200]_vars

\* C22: a batch decision on a stored run that leaves an approval row of the
\* run pending is answered 200 and leaves the run with the stored status
\* `partial`.
C22_PartialIsStored ==
    [][\A runId \in RunIds, id \in DOMAIN submodule_runs, batch \in Batches(ApprovalIds) :
         (/\ BatchApproval(runId, id, batch)
          /\ submodule_runs[id].run_id = runId
          /\ Summary(approvals', id, "pending") > 0)
         => /\ response'.code = 200
            /\ submodule_runs'[id].status = "partial"]_vars

\* --------------------------------------------- validation route: loading URLs
\* const MAX_URLS = 50000, a multiple of BATCH_SIZE
MAX_URLS == BATCH_SIZE * MaxPages

\* the orders in which the store may return the n pending rows of the run:
\* the query has no ORDER BY, so every query may see another order
RowOrders(n) ==
    {o \in [1..n -> 1..n] : \A i, j \in 1..n : o[i] = o[j] => i = j}

\* .range(from, to) on the rows in the order of this query (0-based, inclusive)
range(order, from, to) ==
    SubSeq(order, from + 1, IF to + 1 < Len(order) THEN to + 1 ELSE Len(order))

\* the loop before its first iteration; ranges records the ranges requested
NewLoad ==
    [urls |-> <<>>, offset |-> 0, hasMore |-> TRUE, ranges |-> <<>>, pc |-> "loop"]

\* one iteration of while (hasMore && urls.length < MAX_URLS)
loadPage ==
    /\ ret[1].pc = "loop"
    /\ ret[1].hasMore /\ Len(ret[1].urls) < MAX_URLS
    /\ \E order \in RowOrders(arg) :
         LET from == ret[1].offset
             to == ret[1].offset + BATCH_SIZE - 1
             batch == range(order, from, to)
         IN  ret' = Returned(
                 IF batch = <<>>
                 THEN [ret[1] EXCEPT !.hasMore = FALSE,
                                     !.ranges = Append(@, <<from, to>>)]
                 ELSE [ret[1] EXCEPT !.urls = @ \o batch,
                                     !.offset = @ + BATCH_SIZE,
                                     !.hasMore = Len(batch) = BATCH_SIZE,
                                     !.ranges = Append(@, <<from, to>>)])
    /\ UNCHANGED <<routevars, fetchvars, net, pool, arg>>

\* a query returns an error: if (urlErr) throw urlErr
loadThrows ==
    /\ ret[1].pc = "loop"
    /\ ret[1].hasMore /\ Len(ret[1].urls) < MAX_URLS
    /\ ret' = Returned([ret[1] EXCEPT !.pc = "threw",
                           !.ranges = Append(@, <<ret[1].offset,
                                                  ret[1].offset + BATCH_SIZE - 1>>)])
    /\ UNCHANGED <<routevars, fetchvars, net, pool, arg>>

\* the loop condition fails: the route goes on with urls
loadDone ==
    /\ ret[1].pc = "loop"
    /\ ~(ret[1].hasMore /\ Len(ret[1].urls) < MAX_URLS)
    /\ ret' = Returned([ret[1] EXCEPT !.pc = "done"])
    /\ UNCHANGED <<routevars, fetchvars, net, pool, arg>>

InitLoad ==
    /\ RouteInit /\ FetchInit /\ NetIdle /\ PoolIdle
    /\ arg \in 0..MaxRows
    /\ ret = Returned(NewLoad)

NextLoad ==
    \/ loadPage
    \/ loadThrows
    \/ loadDone

SpecLoad == InitLoad /\ [][NextLoad]_vars

\* how often row r has been loaded
C23_Loaded(r) == Cardinality({k \in DOMAIN ret[1].urls : ret[1].urls[k] = r})

\* C23: the loop asks for consecutive ranges of BATCH_SIZE rows, for at most
\* MAX_URLS / BATCH_SIZE pages (so it terminates), never holds more than
\* MAX_URLS URLs, stops at the first empty or short page, and when it is done
\* has loaded every pending row exactly once, or MAX_URLS distinct rows if
\* there are more.
C23_PagedExactlyOnce ==
    /\ \A k \in DOMAIN ret[1].ranges :
           ret[1].ranges[k] = <<(k - 1) * BATCH_SIZE, k * BATCH_SIZE - 1>>
    /\ Len(ret[1].ranges) <= MaxPages
    /\ Len(ret[1].urls) <= MAX_URLS
    /\ ~ret[1].hasMore => ret[1].offset + BATCH_SIZE > Len(ret[1].urls)
    /\ ret[1].pc = "done" =>
           /\ \A r \in 1..arg : C23_Loaded(r) <= 1
           /\ arg <= MAX_URLS => \A r \in 1..arg : C23_Loaded(r) = 1
           /\ arg > MAX_URLS => Len(ret[1].urls) = MAX_URLS

\* ------------------------------------------------- promotion to discovered_urls
\* execute requests on the stored run: run_id with run_entity_ids (Mode 3), or
\* the same with an "entities" array of the body (Mode 2, which wins)
PromoteRequests ==
    {[run_id |-> 1, run_entity_ids |-> ids, entities |-> e, project_id |-> NULL] :
        ids \in {<<1>>, <<1, 2>>}, e \in {<<>>, <<"c">>}}

ExecutePromote ==
    /\ \E req \in PromoteRequests, outcome \in Outcomes, insertError \in BOOLEAN :
           Execute("sitemap", req, outcome, insertError)
    /\ UNCHANGED <<fetchvars, auxvars>>

NextPromote ==
    \/ ExecutePromote
    \/ ApproveAny
    \/ RejectAny

SpecPromote == Init /\ [][NextPromote]_vars

\* the rows an approve step adds to discovered_urls
C24_Promoted == {discovered_urls'[k] : k \in (Len(discovered_urls) + 1)..Len(discovered_urls')}

\* C24: every row an approve adds to discovered_urls is stored under a run
\* entity whose snapshot id is the entity_id of a result with that URL, or,
\* in a run of one entity only, under that entity.
C24_StoredUnderProducer ==
    [][\A runId \in RunIds, id \in DOMAIN submodule_runs, sel \in SUBSET Urls :
         Approve(runId, id, sel) =>
           \A row \in C24_Promoted :
             \/ \E k \in DOMAIN submodule_runs[id].results.items :
                  /\ submodule_runs[id].results.items[k].url = row.url
                  /\ run_entities[row.run_entity_id].snapshot_id =
                       submodule_runs[id].results.items[k].entity_id
             \/ /\ Len(submodule_runs[id].run_entity_ids) = 1
                /\ row.run_entity_id = submodule_runs[id].run_entity_ids[1]]_vars

\* ----------------------------------------- discovery execute: order of results
\* A URL is <<e, c, k>>: entry k of child sitemap c of entity e (a page or a
\* plain sitemap is one child). A fetch is <<e, c>>.

\* values in the order in which the promises settled
promiseAll_settled(promises, settled) ==
    SelectSeq(settled, LAMBDA x : x \in Range(promises))

\* await Promise.all(promises): the values in the order of the promises
promiseAll(promises, settled) == promises

\* the entities of the batch at loop index i, in input order
orderBatch(p) ==
    [j \in 1..(IF p.i + p.concurrency < MaxEntities
               THEN p.concurrency ELSE MaxEntities - p.i) |-> p.i + j]

\* sitemapLocs of entity e, in the order of the index
sitemapLocs(p, e) == [c \in 1..p.kids[e] |-> <<e, c>>]

\* the entries of one child, in the order of the document
subUrls(fetch) == [k \in 1..EntriesPerChild |-> <<fetch[1], fetch[2], k>>]

RECURSIVE pushAll(_, _)
\* for (const x of values) urls.push(...of(x))
pushAll(values, i) ==
    IF i > Len(values) THEN <<>>
    ELSE subUrls(values[i]) \o pushAll(values, i + 1)

\* processEntity(e): allResults = await Promise.all(fetchPromises)
entityUrls(p, e) == pushAll(promiseAll(sitemapLocs(p, e), p.settled), 1)

RECURSIVE pushEntities(_, _, _)
\* for (const result of batchResults) results.push(...result.urls)
pushEntities(p, batchResults, i) ==
    IF i > Len(batchResults) THEN <<>>
    ELSE entityUrls(p, batchResults[i][1]) \o pushEntities(p, batchResults, i + 1)

NewOrder(concurrency, kids) ==
    [concurrency |-> concurrency, kids |-> kids, i |-> 0, pending |-> {},
     settled |-> <<>>, entityDone |-> <<>>, results |-> <<>>, pc |-> "loop"]

\* batch.map(processEntity): every fetch of every entity of the batch starts
orderStart ==
    /\ pool.pc = "loop"
    /\ pool.i < MaxEntities
    /\ pool' = [pool EXCEPT
                  !.pc = "await",
                  !.pending = {<<e, c>> : e \in Range(orderBatch(pool)), c \in 1..MaxKids}
                                \cap {f \in (1..MaxEntities) \X (1..MaxKids) :
                                        f[2] <= pool.kids[f[1]]},
                  !.settled = <<>>,
                  !.entityDone = <<>>]
    /\ UNCHANGED <<routevars, fetchvars, net, arg, ret>>

\* one fetch settles; the entity whose last fetch it was returns
fetchSettles(e, c) ==
    /\ pool.pc = "await"
    /\ <<e, c>> \in pool.pending
    /\ pool' = [pool EXCEPT
                  !.pending = @ \ {<<e, c>>},
                  !.settled = Append(@, <<e, c>>),
                  !.entityDone = IF \E f \in pool.pending : f[1] = e /\ f[2] # c
                                 THEN @ ELSE Append(@, <<e>>)]
    /\ UNCHANGED <<routevars, fetchvars, net, arg, ret>>

\* the await of the batch returns and its results are pushed
orderCollect ==
    /\ pool.pc = "await"
    /\ pool.pending = {}
    /\ LET entities == [j \in DOMAIN orderBatch(pool) |-> <<orderBatch(pool)[j]>>]
           batchResults == promiseAll(entities, pool.entityDone)
       IN pool' = [pool EXCEPT
                     !.pc = "loop",
                     !.i = @ + pool.concurrency,
                     !.results = @ \o pushEntities(pool, batchResults, 1)]
    /\ UNCHANGED <<routevars, fetchvars, net, arg, ret>>

orderReturns ==
    /\ pool.pc = "loop"
    /\ pool.i >= MaxEntities
    /\ pool' = [pool EXCEPT !.pc = "done"]
    /\ UNCHANGED <<routevars, fetchvars, net, arg, ret>>

InitOrder ==
    /\ RouteInit /\ FetchInit /\ NetIdle /\ PureIdle
    /\ pool \in {NewOrder(concurrency, kids) :
                   concurrency \in 1..MaxConcurrency,
                   kids \in [1..MaxEntities -> 1..MaxKids]}

NextOrder ==
    \/ orderStart
    \/ \E e \in 1..MaxEntities, c \in 1..MaxKids : fetchSettles(e, c)
    \/ orderCollect
    \/ orderReturns

SpecOrder == InitOrder /\ [][NextOrder]_vars

\* u comes before v in the sources: earlier entity, or the same entity and an
\* earlier child, or the same child and an earlier entry
C25_Before(u, v) ==
    \/ u[1] < v[1]
    \/ u[1] = v[1] /\ u[2] < v[2]
    \/ u[1] = v[1] /\ u[2] = v[2] /\ u[3] < v[3]

\* C25: in whatever order the fetches settle, the result array lists the
\* entities in input order, each as one block, and inside a block the URLs in
\* the order of the source.
C25_SourceOrder ==
    \A i, j \in DOMAIN pool.results :
        i < j => C25_Before(pool.results[i], pool.results[j])

\* the first batch has been pushed although entity 2 returned before entity 1
\* and the second child of entity 1 settled before its first
C25_Witness ==
    /\ pool.pc = "loop"
    /\ pool.results # <<>>
    /\ Len(pool.entityDone) = 2 /\ pool.entityDone[1] = <<2>>
    /\ \E a, b \in DOMAIN pool.settled :
          a < b /\ pool.settled[a] = <<1, 2>> /\ pool.settled[b] = <<1, 1>>

\* ------------------------------------------------ preview execute of sitemap
\* what the site of an entity is: no website field; a domain nothing answers
\* on; a site with a sitemap; a site whose sitemap is not XML
PreviewKinds == {"noWebsite", "unreachable", "sitemap", "malformed"}

\* sitemap.xml, sitemap_index.xml, sitemap/sitemap.xml
sitemapLocations == 3

\* the body's entities, none processed yet; results is the array execute
\* builds, items its elements and _errors the property attached to it
NewPreview(entities) ==
    [entities |-> entities, e |-> 1, loc |-> 1,
     results |-> [items |-> <<>>, _errors |-> <<>>], errors |-> <<>>, pc |-> "execute"]

\* the next entity, or the end of the loop
nextEntity(p, urls, error) ==
    [p EXCEPT !.e = @ + 1, !.loc = 1,
              !.results.items = @ \o urls,
              !.errors = @ \o error]

\* processEntity of an entity without website
previewNoWebsite ==
    /\ pool.pc = "execute" /\ pool.e <= Len(pool.entities)
    /\ pool.entities[pool.e] = "noWebsite"
    /\ pool' = nextEntity(pool, <<>>,
                  <<[entity_id |-> pool.e, error_code |-> "NO_WEBSITE_URL", code |-> NULL]>>)
    /\ UNCHANGED <<routevars, fetchvars, net, arg, ret>>

\* _fetchSitemap: content = await this._fetch(sitemapUrl) for one location;
\* on an unreachable domain every _fetch resolves null
previewFetch(found) ==
    /\ pool.pc = "execute" /\ pool.e <= Len(pool.entities)
    /\ pool.entities[pool.e] # "noWebsite"
    /\ pool.entities[pool.e] = "unreachable" => ~found
    /\ pool' =
         IF found
         THEN IF pool.entities[pool.e] = "sitemap"
              THEN nextEntity(pool, <<[entity_id |-> pool.e, url |-> "u1"]>>, <<>>)
              ELSE nextEntity(pool, <<>>,
                      <<[entity_id |-> pool.e, error_code |-> NULL,
                         code |-> "SITEMAP_PARSE_ERROR"]>>)
         ELSE IF pool.loc < sitemapLocations
              THEN [pool EXCEPT !.loc = @ + 1]
              ELSE nextEntity(pool, <<>>,
                      <<[entity_id |-> pool.e, error_code |-> NULL,
                         code |-> "SITEMAP_NOT_FOUND"]>>)
    /\ UNCHANGED <<routevars, fetchvars, net, arg, ret>>

\* res.json: JSON.stringify writes the elements of an array; a property
\* set on the array object (results._errors) is not written
stringify(array) == [items |-> array.items, _errors |-> <<>>]

\* if (errors.length > 0) results._errors = errors; return results; the route
\* answers res.json({status, result_count, results, error, ...})
previewRespond ==
    /\ pool.pc = "execute" /\ pool.e > Len(pool.entities)
    /\ LET results == [pool.results EXCEPT !._errors = pool.errors] IN
       /\ pool' = [pool EXCEPT !.results = results, !.pc = "done"]
       /\ response' = [op |-> "execute", code |-> 200,
                       status |-> ExecStatus(FALSE, NULL),
                       preview_mode |-> TRUE, already_approved |-> FALSE,
                       result_count |-> Len(results.items),
                       results |-> stringify(results),
                       error |-> NULL]
    /\ UNCHANGED <<dbvars, events, fetchvars, net, arg, ret>>

InitPreview ==
    /\ RouteInit /\ FetchInit /\ NetIdle /\ PureIdle
    /\ pool \in {NewPreview(entities) :
                   entities \in UNION {[1..n -> PreviewKinds] : n \in 1..MaxPreview}}

NextPreview ==
    \/ previewNoWebsite
    \/ \E found \in BOOLEAN : previewFetch(found)
    \/ previewRespond

SpecPreview == InitPreview /\ [][NextPreview]_vars

\* C26: the response to a preview execute on one entity with an unreachable
\* domain has status completed, result_count 0 and carries that entity's
\* SITEMAP_NOT_FOUND error.
C26_ErrorInResponse ==
    (pool.pc = "done" /\ pool.entities = <<"unreachable">>) =>
        /\ response.status = "completed"
        /\ response.result_count = 0
        /\ \E k \in DOMAIN response.results._errors :
              /\ response.results._errors[k].entity_id = 1
              /\ response.results._errors[k].code = "SITEMAP_NOT_FOUND"

\* ------------------------------------------ approval routes: implicit claims
\* the URL is stored in discovered_urls under some entity of the run
C27_Stored(url) == \E k \in DOMAIN discovered_urls : discovered_urls[k].url = url

\* C27: while a discovery run has status approved, the URL of each of its
\* results whose approval row is approved is in discovered_urls.
C27_ApprovedArePromoted ==
    \A id \in DOMAIN submodule_runs :
        (submodule_runs[id].submodule_type = "discovery"
           /\ submodule_runs[id].status = "approved") =>
            \A r \in DOMAIN approvals :
                (approvals[r].submodule_run_id = id /\ approvals[r].status = "approved")
                    => C27_Stored(approvals[r].result_url)

\* C28: a batch decision that is not answered 200 has changed no approval row.
C28_BatchAllOrNothing ==
    [][\A runId \in RunIds, id \in SubRunIds,
          batch \in Batches(ApprovalIds) \cup BadBatches :
            (BatchApproval(runId, id, batch) /\ response'.code # 200)
                => approvals' = approvals]_vars

\* the submodule run id belongs to run runId
C29_Belongs(runId, id) ==
    id \in DOMAIN submodule_runs /\ submodule_runs[id].run_id = runId

\* C29: a request on /runs/:runId/:submoduleRunId whose submodule run is not
\* one of run :runId changes no submodule run and no approval row.
C29_ScopedToRun ==
    [][\A runId \in RunIds, id \in SubRunIds :
         (/\ ~C29_Belongs(runId, id)
          /\ \/ Reject(runId, id)
             \/ \E sel \in SUBSET Urls : Approve(runId, id, sel)
             \/ \E approvalId \in ApprovalIds, action \in {"approve", "reject"} :
                    PatchResult(runId, id, approvalId, action, FALSE)
             \/ \E batch \in Batches(ApprovalIds) : BatchApproval(runId, id, batch))
         => /\ submodule_runs' = submodule_runs
            /\ approvals' = approvals]_vars

\* --------------------------------------------- shared browser: failed launch
\* C30: a launch that rejected is not left as the launch-in-flight marker, and
\* a getBrowser call that finds neither instance nor pending launch starts a
\* new launch instead of failing on the old one.
C30_FailedLaunchCleared ==
    /\ [](\A p \in DOMAIN launches :
            launches[p] = "rejected" => browserLaunchPromise # p)
    /\ [][\A c \in Callers :
            (/\ getBrowser(c)
             /\ browserInstance = NoBrowser
             /\ \A p \in DOMAIN launches : launches[p] # "pending"
             /\ Len(launches) < MaxLaunches)
            => Len(launches') = Len(launches) + 1]_vars

====
